---- MODULE Spec2Model ----
(***************************************************************************)
(* Conversation orchestration core of the menu-ai Slack bot                *)
(* (src/backend/server.js): the threaded-message handler, the upload       *)
(* handler and the closing-report task, over the three tables menus,       *)
(* conversations and messages.                                             *)
(*                                                                         *)
(* A text is a sequence of symbols.  A symbol is one character, written    *)
(* as a string; TLA+ strings are ASCII, so a CJK character is written by   *)
(* its pinyin ("tong" is U+7D71) and the control characters by name        *)
(* ("LF", "NUL").  A completion response is a sequence of lexemes: the     *)
(* fence markers, brackets and JSON items are one symbol each.             *)
(***************************************************************************)
EXTENDS Naturals, Sequences, FiniteSets, TLC

VARIABLES menus, conversations, messages, report, last, cycles

vars == <<menus, conversations, messages, report, last, cycles>>

----------------------------------------------------------------------------
(* Bounds of the model *)

\* Stored Turns are capped: a plain chat exchange needs room for two rows.
MaxTurns == 4
\* Closing-report sub-flows that may be started in one run.
MaxReports == 1

----------------------------------------------------------------------------
(* Symbols and texts *)

\* SQL NULL / JS null in a text-valued column or variable.
NULL == <<"<null>">>

Digits == {"0", "1", "2", "3", "4", "5", "6", "7", "8", "9"}
\* \s of a JS regular expression and the characters String.trim removes.
Whitespace == {" ", "LF", "TAB"}

\* '統整建議'
CMD_SUMMARY == <<"tong", "zheng", "jian", "yi">>
\* '提供 excel' and '提供 csv'
CMD_EXCEL == <<"ti", "gong", " ", "e", "x", "c", "e", "l">>
CMD_CSV == <<"ti", "gong", " ", "c", "s", "v">>
\* '產出結案報告'
CMD_REPORT == <<"chan", "chu", "jie", "an", "bao", "gao">>
\* '目標客單價' and '主要目標客群'
LABEL_AOV == <<"mu", "biao", "ke", "dan", "jia">>
LABEL_AUDIENCE == <<"zhu", "yao", "mu", "biao", "ke", "qun">>
\* The two colons of (?:：|:) : U+FF1A and ':'
Colons == {"fwcolon", ":"}

\* String.prototype.toLowerCase, on the letters the inputs use.
LowerChar(c) ==
    CASE c = "E" -> "e"
      [] c = "C" -> "c"
      [] c = "S" -> "s"
      [] c = "V" -> "v"
      [] c = "X" -> "x"
      [] c = "L" -> "l"
      [] OTHER -> c

toLowerCase(text) == [i \in 1..Len(text) |-> LowerChar(text[i])]

\* whether phrase occurs in text at position i
MatchesAt(text, i, phrase) ==
    /\ i >= 1
    /\ i + Len(phrase) - 1 <= Len(text)
    /\ \A j \in 1..Len(phrase) : text[i + j - 1] = phrase[j]

\* String.prototype.includes
includes(text, phrase) == \E i \in 1..(Len(text) + 1) : MatchesAt(text, i, phrase)

\* String.prototype.trim
TrimStart(text) ==
    IF \A i \in 1..Len(text) : text[i] \in Whitespace
    THEN <<>>
    ELSE LET first == CHOOSE i \in 1..Len(text) :
                          /\ text[i] \notin Whitespace
                          /\ \A j \in 1..(i - 1) : text[j] \in Whitespace
         IN SubSeq(text, first, Len(text))

TrimEnd(text) ==
    IF \A i \in 1..Len(text) : text[i] \in Whitespace
    THEN <<>>
    ELSE LET lst == CHOOSE i \in 1..Len(text) :
                        /\ text[i] \notin Whitespace
                        /\ \A j \in (i + 1)..Len(text) : text[j] \in Whitespace
         IN SubSeq(text, 1, lst)

trim(text) == TrimEnd(TrimStart(text))

\* Mutant: the text is stored as it came.
sanitizeStringForDBAsIs(str) == str

\* sanitizeStringForDB: str.replace(/\0/g, '')
sanitizeStringForDB(str) == SelectSeq(str, LAMBDA c : c # "NUL")

----------------------------------------------------------------------------
(* Validation and best-effort parsing of human text *)

\* /^\d{4}\/\d{2}\/\d{2}$/ : "d" stands for \d, any other symbol for itself.
DATE_PATTERN == <<"d", "d", "d", "d", "/", "d", "d", "/", "d", "d">>

ClassMatches(p, c) == IF p = "d" THEN c \in Digits ELSE c = p

\* Mutant: the $ anchor is missing.
RegexTestPrefix(pattern, text) ==
    /\ Len(text) >= Len(pattern)
    /\ \A i \in 1..Len(pattern) : ClassMatches(pattern[i], text[i])

\* RegExp.test of a pattern anchored by ^ and $: the whole text must match.
RegexTestAnchored(pattern, text) ==
    /\ Len(text) = Len(pattern)
    /\ \A i \in 1..Len(pattern) : ClassMatches(pattern[i], text[i])

\* Length of the whitespace run of text that starts at position i.
RECURSIVE WhitespaceRun(_, _)
WhitespaceRun(text, i) ==
    IF i <= Len(text) /\ text[i] \in Whitespace
    THEN 1 + WhitespaceRun(text, i + 1)
    ELSE 0

\* Mutant: the capture group runs to the end of the text.
LineEndOfText(text, i) == Len(text)

\* Last position of the run of non-newline symbols that starts at position i.
RECURSIVE LineEnd(_, _)
LineEnd(text, i) ==
    IF i + 1 <= Len(text) /\ text[i + 1] # "LF"
    THEN LineEnd(text, i + 1)
    ELSE i

\* Where the capture group of /<label>(?:：|:)\s*([^\n]+)/ starts when the
\* label is at position i: \s* is greedy and gives symbols back until the
\* group can take at least one non-newline symbol.  0 when there is no match.
CaptureStart(label, text, i) ==
    IF ~(MatchesAt(text, i, label)
         /\ i + Len(label) <= Len(text)
         /\ text[i + Len(label)] \in Colons)
    THEN 0
    ELSE LET after == i + Len(label) + 1
             run == WhitespaceRun(text, after)
             ok == {s \in after..(after + run) : s <= Len(text) /\ text[s] # "LF"}
         IN IF ok = {} THEN 0 ELSE CHOOSE s \in ok : \A t \in ok : t <= s

\* backgroundInfo.match(/<label>(?:：|:)\s*([^\n]+)/i), then
\* `if (m && m[1]) target = m[1].trim()`; NULL when nothing matches.
ParseLabeledField(label, text) ==
    LET hits == {i \in 1..Len(text) : CaptureStart(label, text, i) # 0}
    IN IF hits = {}
       THEN NULL
       ELSE LET i == CHOOSE h \in hits : \A g \in hits : h <= g
                s == CaptureStart(label, text, i)
            IN trim(SubSeq(text, s, LineEnd(text, s)))

----------------------------------------------------------------------------
(* Tabular export: generateExcelBuffer *)

maxTags == 12

\* Pictographs of the ranges removeEmojis deletes, among the symbols used:
\* U+1F31F (glowing star), U+2B50 (star), U+1F4F8 (camera), U+1F3AF (target).
Emojis == {"glowing_star", "star", "camera", "target"}

\* text.replace(/(<emoji>)\s*/gu, ''): each pictograph goes with the
\* whitespace that directly follows it.
RECURSIVE ReplaceEmojis(_, _)
ReplaceEmojis(text, i) ==
    IF i > Len(text)
    THEN <<>>
    ELSE IF text[i] \in Emojis
         THEN ReplaceEmojis(text, i + 1 + WhitespaceRun(text, i + 1))
         ELSE <<text[i]>> \o ReplaceEmojis(text, i + 1)

\* Mutant: the result is not trimmed.
removeEmojisUntrimmed(text) == ReplaceEmojis(text, 1)

removeEmojis(text) == trim(ReplaceEmojis(text, 1))

\* Mutant: /\(\+\d*\)/, which also takes "(+)".
PricedTagTestNoDigit(tag) ==
    \E i \in 1..Len(tag) : \E n \in 0..Len(tag) :
        /\ i + n + 2 <= Len(tag)
        /\ tag[i] = "("
        /\ tag[i + 1] = "+"
        /\ \A k \in 1..n : tag[i + 1 + k] \in Digits
        /\ tag[i + n + 2] = ")"

\* /\(\+\d+\)/.test(tag): "(", "+", one or more digits, ")" somewhere in tag.
PricedTagTest(tag) ==
    \E i \in 1..Len(tag) : \E n \in 1..Len(tag) :
        /\ i + n + 2 <= Len(tag)
        /\ tag[i] = "("
        /\ tag[i + 1] = "+"
        /\ \A k \in 1..n : tag[i + 1 + k] \in Digits
        /\ tag[i + n + 2] = ")"

\* A JSON value under a key of an item: a string, a number (its digits) or
\* nothing (the key is missing).
Str(text) == [type |-> "string", text |-> text]
Num(digits) == [type |-> "number", text |-> digits]
Undefined == [type |-> "undefined", text |-> <<>>]

\* JS truthiness: '' and 0 and undefined are falsy.
Truthy(v) ==
    CASE v.type = "string" -> v.text # <<>>
      [] v.type = "number" -> v.text # <<"0">>
      [] OTHER -> FALSE

\* a || b
OrElse(a, b) == IF Truthy(a) THEN a ELSE b

\* JSON.parse of one value lexeme.  An object carries the item's name (the
\* value under '商品名稱(半型字)', 'Item' or '品項'), the values under '價格'
\* (price) and 'Price', and its tags 標籤1.. in order; a missing tag is ''.
JsonValues ==
    [x \in {"{burger}", "{salad}", "{fries}", "{tea}", "{water}", "{soup}", "{fish}",
            "null", "7"} |->
        CASE x = "{burger}" ->
               [kind |-> "object",
                name |-> <<"glowing_star", " ", "he", "niu">>,
                price |-> Str(<<"3", "5", "0">>), Price |-> Undefined,
                tags |-> << <<"jia", "(", "+", "3", "0", ")">>, <<"la">>,
                            <<"(", "+", "4", "0", ")">> >>]
          [] x = "{salad}" ->
               [kind |-> "object",
                name |-> <<"sha", "la">>,
                price |-> Str(<<"1", "8", "0">>), Price |-> Undefined,
                tags |-> << >>]
          [] x = "{fries}" ->
               [kind |-> "object",
                name |-> <<"shu", "tiao", " ", "star">>,
                price |-> Str(<<"6", "0">>), Price |-> Undefined,
                tags |-> << <<"re", "mai">>, <<"da", "(", "+", "1", "5", ")">>, <<>>,
                            <<"(", "+", ")">>, <<"(", "+", "5", ")", "qi", "si">> >>]
          [] x = "{tea}" ->
               [kind |-> "object",
                name |-> <<"hong", "cha">>,
                price |-> Str(<<"4", "0">>), Price |-> Undefined,
                tags |-> << <<"(", "+", "0", ")">>, <<"bing">>, <<"(", "5", ")">>,
                            <<"+", "5">>, <<"da", "(", "+", "1", "0", ")">>, <<>>,
                            <<"wen">>, <<"(", "+", "a", ")">>, <<"(", "+", "2", "0", ")">>,
                            <<"re">>, <<"qu", "bing">>, <<"(", "+", "5", ")">> >>]
          \* {"商品名稱(半型字)": "水", "價格": 0}
          [] x = "{water}" ->
               [kind |-> "object",
                name |-> <<"shui">>,
                price |-> Num(<<"0">>), Price |-> Undefined,
                tags |-> << >>]
          \* {"Item": "湯", "Price": 80}
          [] x = "{soup}" ->
               [kind |-> "object",
                name |-> <<"tang">>,
                price |-> Undefined, Price |-> Num(<<"8", "0">>),
                tags |-> << >>]
          \* {"商品名稱(半型字)": "魚", "價格": "時價"}
          [] x = "{fish}" ->
               [kind |-> "object",
                name |-> <<"yu">>,
                price |-> Str(<<"shi", "jia">>), Price |-> Undefined,
                tags |-> << >>]
          [] x = "null" ->
               [kind |-> "null", name |-> <<>>, price |-> Undefined, Price |-> Undefined,
                tags |-> <<>>]
          [] OTHER ->
               [kind |-> "number", name |-> <<>>, price |-> Undefined, Price |-> Undefined,
                tags |-> <<>>]]

\* "FENCE" is a line of three backquotes, "FENCE_JSON" the same followed by
\* json and "FENCE_MD" the same followed by markdown.  All begin with three
\* backquotes, so any of them can close a fence.
Fences == {"FENCE", "FENCE_JSON", "FENCE_MD"}

StripWhitespace(text) == SelectSeq(text, LAMBDA c : c \notin Whitespace)

\* JSON.parse on lexemes: [kind |-> "array", items] for a flat array of value
\* lexemes separated by commas, [kind |-> "scalar"] for a single value, and
\* [kind |-> "error"] (SyntaxError) for anything else.  Nested arrays are not
\* among the inputs.
JsonParse(text) ==
    LET t == StripWhitespace(text)
        n == Len(t)
        inner == SubSeq(t, 2, n - 1)
        m == Len(inner)
    IN IF n = 1 /\ t[1] \in DOMAIN JsonValues
       THEN [kind |-> "scalar", items |-> <<>>]
       ELSE IF n >= 2 /\ t[1] = "[" /\ t[n] = "]"
                 /\ (m = 0 \/ m % 2 = 1)
                 /\ \A i \in 1..m : IF i % 2 = 1 THEN inner[i] \in DOMAIN JsonValues
                                                   ELSE inner[i] = ","
            THEN [kind |-> "array",
                  items |-> [k \in 1..((m + 1) \div 2) |-> JsonValues[inner[2 * k - 1]]]]
            ELSE [kind |-> "error", items |-> <<>>]

\* Positions of the closing fences after an opening fence at p.
ClosingFences(text, p) == {q \in (p + 1)..Len(text) : text[q] \in Fences}

\* Whether /```json\s*([\s\S]*?)\s*```|(\[[\s\S]*\])/ matches starting at p.
MatchStartsAt(text, p) ==
    \/ text[p] = "FENCE_JSON" /\ ClosingFences(text, p) # {}
    \/ text[p] = "[" /\ \E q \in (p + 1)..Len(text) : text[q] = "]"

\* structuredText.match(...) and `jsonMatch[1] || jsonMatch[2]`: the match is
\* the leftmost one; group 1 is the fenced content up to the first closing
\* fence, without the whitespace around it; group 2 runs from the bracket to
\* the last "]" of the text.  An empty group 1 leaves undefined, which
\* JSON.parse rejects like the empty text.
JsonMatch(structuredText) ==
    LET starts == {p \in 1..Len(structuredText) : MatchStartsAt(structuredText, p)}
    IN IF starts = {}
       THEN [found |-> FALSE, jsonString |-> <<>>]
       ELSE LET p == CHOOSE s \in starts : \A t \in starts : s <= t
            IN IF structuredText[p] = "FENCE_JSON"
               THEN LET q == CHOOSE c \in ClosingFences(structuredText, p) :
                                 \A d \in ClosingFences(structuredText, p) : c <= d
                    IN [found |-> TRUE,
                        jsonString |-> trim(SubSeq(structuredText, p + 1, q - 1))]
               ELSE LET q == CHOOSE c \in (p + 1)..Len(structuredText) :
                                 /\ structuredText[c] = "]"
                                 /\ \A d \in (c + 1)..Len(structuredText) :
                                        structuredText[d] # "]"
                    IN [found |-> TRUE, jsonString |-> SubSeq(structuredText, p, q)]

\* Mutant: a tag that fails the test is blanked where it stands.
pricedTagsInPlace(item) ==
    [i \in 1..(IF Len(item.tags) < maxTags THEN Len(item.tags) ELSE maxTags) |->
        IF PricedTagTest(item.tags[i]) THEN item.tags[i] ELSE <<>>]

\* The tags of an item that pass the (+Number) test, in order.
pricedTags(item) ==
    SelectSeq(SubSeq(item.tags, 1, IF Len(item.tags) < maxTags THEN Len(item.tags) ELSE maxTags),
              PricedTagTest)

\* One row of the sheet, from one parsed item.
ExportRow(item) ==
    [name |-> removeEmojis(item.name),
     price |-> OrElse(item.price, OrElse(item.Price, Str(<<>>))),
     taxType |-> "TX",
     taxRate |-> "0.05",
     tags |-> [i \in 1..maxTags |->
                  IF i <= Len(pricedTags(item)) THEN pricedTags(item)[i] ELSE <<>>]]

\* Mutant: an item that cannot be read is left out and the rest is written.
generateExcelBufferSkipping(structuredText) ==
    LET m == JsonMatch(structuredText)
        data == JsonParse(m.jsonString)
        items == SelectSeq(data.items, LAMBDA item : item.kind # "null")
    IN IF m.found /\ data.kind = "array" /\ Len(items) # 0
       THEN [ok |-> TRUE, rows |-> [i \in 1..Len(items) |-> ExportRow(items[i])]]
       ELSE [ok |-> FALSE, rows |-> <<>>]

\* generateExcelBuffer: the rows written to the workbook, or null ([ok |->
\* FALSE]) when no JSON is found, it does not parse, the value is no array,
\* an item is null (reading a key of it throws), or the array is empty.
generateExcelBuffer(structuredText) ==
    LET m == JsonMatch(structuredText)
        data == JsonParse(m.jsonString)
    IN IF /\ m.found
          /\ data.kind = "array"
          /\ \A i \in 1..Len(data.items) : data.items[i].kind # "null"
          /\ Len(data.items) # 0
       THEN [ok |-> TRUE, rows |-> [i \in 1..Len(data.items) |-> ExportRow(data.items[i])]]
       ELSE [ok |-> FALSE, rows |-> <<>>]

----------------------------------------------------------------------------
(* The steps of a handler and how the handler's try/catch/finally runs them *)

\* The external calls a handler makes, in the order of the code.  Each of
\* them may throw; "throw" is a `throw new Error` of the handler itself.
Connect == [op |-> "connect"]
Query == [op |-> "query"]
Begin == [op |-> "begin"]
Commit == [op |-> "commit"]
Insert(sender, content) == [op |-> "insert", sender |-> sender, content |-> content]
Update(set) == [op |-> "update", set |-> set]
Post(tag, body) == [op |-> "post", msg |-> [tag |-> tag, body |-> body]]
Gemini == [op |-> "gemini"]
\* SELECT sender, content FROM messages ... ORDER BY created_at ASC, which
\* returns rows, and callGemini(prompt, geminiHistory).
History(rows) == [op |-> "history", rows |-> rows]
GeminiWith(geminiHistory) == [op |-> "gemini_with", geminiHistory |-> geminiHistory]
Upload(rows) == [op |-> "upload", file |-> rows]
Throw == [op |-> "throw"]
Spawn == [op |-> "spawn"]
\* The extraction of the menu text (performOcr or fs.readFile) in its own
\* try block, whose catch either throws again or only logs.
Extract(rethrow) == [op |-> "extract", rethrow |-> rethrow]

\* A handler run in progress: the tables as the handler's connection sees
\* them, the tables as they were at BEGIN, and the calls made so far.
StartRun ==
    [conversations |-> conversations, messages |-> messages,
     snapConversations |-> conversations, snapMessages |-> messages,
     inTxn |-> FALSE, posts |-> <<>>, uploads |-> <<>>, calls |-> 0,
     spawned |-> FALSE, extractFailed |-> FALSE, threw |-> FALSE, failedAt |-> 0,
     history |-> <<>>, passed |-> <<>>,
     acquired |-> 0, released |-> 0]

\* messages.created_at DEFAULT CURRENT_TIMESTAMP: the start time of the
\* transaction, so the rows one transaction inserts carry the same value.
\* Time is counted in rows stored when the transaction (or statement) began.
CurrentTimestamp(s) == IF s.inTxn THEN Len(s.snapMessages) ELSE Len(s.messages)

\* Mutant: the rows come back in the order they were inserted.
ReadsInInsertionOrder(rows) == {rows}

\* SELECT ... FROM messages ... ORDER BY created_at ASC: the stored rows in
\* an order that is sorted by created_at.  Rows with one created_at (those of
\* one transaction) come back in either order: no second sort key is given.
RECURSIVE Reads(_)
Reads(rows) ==
    IF rows = <<>>
    THEN {<<>>}
    ELSE LET n == Len(rows)
             \* the rows that share the first row's created_at
             g == CHOOSE k \in 1..n :
                      /\ \A i \in 1..k : rows[i].created_at = rows[1].created_at
                      /\ k < n => rows[k + 1].created_at # rows[1].created_at
             orders == {q \in [1..g -> 1..g] : \A i, j \in 1..g : q[i] = q[j] => i = j}
         IN {[i \in 1..g |-> rows[q[i]]] \o rest :
                q \in orders, rest \in Reads(SubSeq(rows, g + 1, n))}

\* The reads a run of script can get that fails at step fail (0: nowhere):
\* a run that ends before its SELECT of the history reads nothing.
ReadsWhenReached(script, fail) ==
    IF \E k \in 1..Len(script) :
           script[k].op = "history" /\ (fail = 0 \/ k < fail)
    THEN Reads(messages)
    ELSE {messages}

\* Whether a run of script that fails at step fail (0: nowhere) gets the
\* response of its completion call.
CallReturned(script, fail) ==
    \E k \in 1..Len(script) :
        script[k].op \in {"gemini", "gemini_with"} /\ (fail = 0 \/ k < fail)

\* Mutant: every row is passed on.
geminiHistoryUnfiltered(historyRows) ==
    [i \in 1..Len(historyRows) |->
        [role |-> IF historyRows[i].sender = "ai" THEN "model" ELSE "user",
         text |-> historyRows[i].content]]

\* historyRes.rows.filter(row => !(row.sender === 'user' && row.content
\* .toLowerCase().includes('統整建議'))).map(row => ({role, parts}))
geminiHistory(historyRows) ==
    LET kept == SelectSeq(historyRows,
                          LAMBDA row : ~(/\ row.sender = "user"
                                         /\ includes(toLowerCase(row.content), CMD_SUMMARY)))
    IN [i \in 1..Len(kept) |->
           [role |-> IF kept[i].sender = "ai" THEN "model" ELSE "user",
            text |-> kept[i].content]]

\* UPDATE conversations SET <set> WHERE id = $n, on the one row there is.
UpdateRow(rows, set) ==
    [i \in 1..Len(rows) |->
        [f \in DOMAIN rows[i] |-> IF f \in DOMAIN set THEN set[f] ELSE rows[i][f]]]

\* A step that completes.
Exec(s, step) ==
    CASE step.op = "connect" -> [s EXCEPT !.acquired = @ + 1]
      [] step.op = "begin" ->
           [s EXCEPT !.inTxn = TRUE,
                     !.snapConversations = s.conversations,
                     !.snapMessages = s.messages]
      [] step.op = "commit" -> [s EXCEPT !.inTxn = FALSE]
      [] step.op = "insert" ->
           [s EXCEPT !.messages =
               Append(@, [sender |-> step.sender, content |-> step.content,
                          created_at |-> CurrentTimestamp(s)])]
      [] step.op = "update" ->
           [s EXCEPT !.conversations = UpdateRow(@, step.set)]
      [] step.op = "post" -> [s EXCEPT !.posts = Append(@, step.msg)]
      [] step.op = "gemini" -> [s EXCEPT !.calls = @ + 1]
      [] step.op = "gemini_with" ->
           [s EXCEPT !.calls = @ + 1, !.passed = step.geminiHistory]
      [] step.op = "history" -> [s EXCEPT !.history = step.rows]
      [] step.op = "upload" -> [s EXCEPT !.uploads = Append(@, step.file)]
      [] step.op = "spawn" -> [s EXCEPT !.spawned = TRUE]
      [] OTHER -> s

\* A step that throws: the call was made (it counts as a call), nothing
\* was written.
Attempt(s, step) ==
    CASE step.op = "post" -> [s EXCEPT !.posts = Append(@, step.msg)]
      [] step.op = "gemini" -> [s EXCEPT !.calls = @ + 1]
      [] step.op = "gemini_with" ->
           [s EXCEPT !.calls = @ + 1, !.passed = step.geminiHistory]
      [] step.op = "upload" -> [s EXCEPT !.uploads = Append(@, step.file)]
      [] step.op = "extract" -> [s EXCEPT !.extractFailed = TRUE]
      [] OTHER -> s

\* A failure that the step's own catch block only logs.
Swallowed(step) == step.op = "extract" /\ ~step.rethrow

\* Mutant: the writes of the open transaction stay.
RollbackNothing(s) == [s EXCEPT !.inTxn = FALSE]

\* ROLLBACK: undoes the writes of the open transaction; without one it
\* undoes nothing (the statements before it were committed one by one).
Rollback(s) ==
    IF s.inTxn
    THEN [s EXCEPT !.inTxn = FALSE,
                   !.conversations = s.snapConversations,
                   !.messages = s.snapMessages]
    ELSE s

\* Mutant: a failed completion call is made a second time before giving up.
CatchRetryingCompletion(s, step, k) ==
    [Rollback(s) EXCEPT !.threw = TRUE, !.failedAt = k,
                        !.calls = IF step.op \in {"gemini", "gemini_with"}
                                  THEN @ + 1 ELSE @,
                        !.posts = Append(@, [tag |-> "error", body |-> <<>>])]

\* catch (error): ROLLBACK, then the error message to the thread (its own
\* failure is swallowed).  pool.connect() is outside the try: when it throws
\* nothing catches it.
Catch(s, step, k) ==
    IF step.op = "connect"
    THEN [s EXCEPT !.threw = TRUE, !.failedAt = k]
    ELSE [Rollback(s) EXCEPT !.threw = TRUE, !.failedAt = k,
                             !.posts = Append(@, [tag |-> "error", body |-> <<>>])]

\* Runs script from step k on; step number fail (0: none) throws.  After a
\* failure that is only logged the script goes on with its next step.
RECURSIVE RunSteps(_, _, _, _)
RunSteps(s, script, k, fail) ==
    IF k > Len(script)
    THEN s
    ELSE IF (k = fail /\ ~Swallowed(script[k])) \/ script[k].op = "throw"
         THEN Catch(Attempt(s, script[k]), script[k], k)
         ELSE IF k = fail
         THEN RunSteps(Attempt(s, script[k]), script, k + 1, fail)
         ELSE RunSteps(Exec(s, script[k]), script, k + 1, fail)

\* Mutant: the connection is released only when the try block completes.
FinallyAfterCompletion(s) ==
    IF s.acquired > 0 /\ ~s.threw THEN [s EXCEPT !.released = @ + 1] ELSE s

\* finally { dbClient.release(); }: runs however the try block ends (at its
\* end, at a `return` in a branch, or after the catch block).  The try block
\* is entered once pool.connect() has returned the client.
Finally(s) ==
    IF s.acquired > 0 THEN [s EXCEPT !.released = @ + 1] ELSE s

RunHandler(script, fail) == Finally(RunSteps(StartRun, script, 1, fail))

----------------------------------------------------------------------------
(* Inputs: the human texts and the completion responses that are tried *)

T_HI == <<"h", "i">>
\* '請統整建議'
T_SUMMARY == <<"qing">> \o CMD_SUMMARY
\* '提供 Excel'
T_EXCEL == <<"ti", "gong", " ", "E", "x", "c", "e", "l">>
T_REPORT == CMD_REPORT
\* '目標客單價：300' and, on the next line, '主要目標客群: 學生'
T_BACKGROUND ==
    LABEL_AOV \o <<"fwcolon", "3", "0", "0", "LF">> \o
    LABEL_AUDIENCE \o <<":", " ", "xue", "sheng">>
T_DATE_OK == <<"2", "0", "2", "4", "/", "0", "1", "/", "1", "5">>
T_DATE_BAD == <<"2", "0", "2", "4", "/", "1", "3", "/", "4", "0">>
T_DATE_DASH == <<"2", "0", "2", "4", "-", "0", "1", "-", "1", "5">>
T_DATE_LONG == <<"2", "0", "2", "4", "/", "0", "1", "/", "1", "5", "5">>

\* message.text as it arrives, with NUL characters in it: T_HI, T_BACKGROUND
\* and T_DATE_OK are what sanitizeStringForDB leaves of these.
RAW_HI == <<"h", "NUL", "i">>
RAW_BACKGROUND ==
    LABEL_AOV \o <<"fwcolon", "3", "NUL", "0", "0", "LF">> \o
    LABEL_AUDIENCE \o <<":", " ", "xue", "NUL", "sheng", "NUL">>
RAW_DATE_OK == <<"NUL", "2", "0", "2", "4", "/", "0", "1", "/", "1", "NUL", "5">>

\* What is sent in each state of the conversation.
BackgroundTexts == {RAW_BACKGROUND, RAW_HI, T_SUMMARY}
ActiveTexts == {RAW_HI, T_SUMMARY, T_EXCEL, T_REPORT}
NameTexts == {RAW_HI, T_REPORT}
DateTexts ==
    {T_DATE_OK, RAW_DATE_OK, T_DATE_BAD, T_DATE_DASH, T_DATE_LONG, RAW_HI,
     T_SUMMARY, T_EXCEL, T_REPORT}
WaitTexts == {RAW_HI, T_REPORT}

R_PLAIN == <<"o", "k">>
R_FENCED == <<"FENCE_JSON", "LF", "[", "{burger}", ",", "{salad}", "]", "LF", "FENCE">>
R_BARE == <<"o", "k", " ", "[", "{salad}", "]">>
\* a bracketed remark before the fenced array
R_NOTE_FENCED == <<"[", "7", "]", " ", "FENCE_JSON", "[", "{burger}", "]", "FENCE">>
R_EMPTY_ARRAY == <<"FENCE_JSON", "[", "]", "FENCE">>

\* The parts of a completion joined, with a NUL character: R_PLAIN is what
\* callGemini returns of it.
RAW_PLAIN == <<"o", "NUL", "k">>

\* Responses to the export command, and responses given as advice.
Responses == {RAW_PLAIN, R_FENCED, R_BARE, R_NOTE_FENCED, R_EMPTY_ARRAY}
AdviceResponses == {RAW_PLAIN, R_FENCED}

\* No response: the completion call was not made or did not return.
NoResponse == <<"<none>">>

\* The responses a run of script can get that fails at step fail.
AnswersTo(script, fail, responses) ==
    IF CallReturned(script, fail) THEN responses ELSE {NoResponse}

\* callGemini returns the response text through sanitizeStringForDB.
callGemini(raw) == sanitizeStringForDB(raw)

\* The pure functions of the handlers, tabulated over the inputs (each is
\* evaluated once per input instead of once per step).
ExcelBufferOf ==
    [r \in {callGemini(a) : a \in Responses \cup {NoResponse}} |-> generateExcelBuffer(r)]
TargetAovOf ==
    [t \in {sanitizeStringForDB(raw) : raw \in BackgroundTexts} |->
        ParseLabeledField(LABEL_AOV, t)]
TargetAudienceOf ==
    [t \in {sanitizeStringForDB(raw) : raw \in BackgroundTexts} |->
        ParseLabeledField(LABEL_AUDIENCE, t)]

----------------------------------------------------------------------------
(* Closing report: the final advice recovered from the history *)

\* '🎯 **核心邏輯與優化重點', the title of the table that is left out.
tableTitleIndicator ==
    <<"target", " ", "*", "*", "he", "xin", "luo", "ji", "yu", "you", "hua",
      "zhong", "dian">>
\* '(建議附照片)', which replaces the camera pictograph.
PHOTO_NOTE == <<"(", "jian", "yi", "fu", "zhao", "pian", ")">>

\* text.split('\n')
RECURSIVE SplitLines(_)
SplitLines(text) ==
    IF \A i \in 1..Len(text) : text[i] # "LF"
    THEN <<text>>
    ELSE LET i == CHOOSE j \in 1..Len(text) :
                      text[j] = "LF" /\ \A k \in 1..(j - 1) : text[k] # "LF"
         IN <<SubSeq(text, 1, i - 1)>> \o SplitLines(SubSeq(text, i + 1, Len(text)))

\* lines.join('\n')
RECURSIVE JoinLines(_)
JoinLines(lines) ==
    IF Len(lines) = 0 THEN <<>>
    ELSE IF Len(lines) = 1 THEN lines[1]
    ELSE lines[1] \o <<"LF">> \o JoinLines(Tail(lines))

\* line.trim().startsWith('|')
IsTableRow(line) == trim(line) # <<>> /\ trim(line)[1] = "|"

\* The loop over the lines: from the title on, the rows of the table (and a
\* '---' that follows a kept row) are skipped; the first other line ends it.
RECURSIVE RemoveTable(_, _, _, _)
RemoveTable(lines, i, inTableToRemove, newLines) ==
    IF i > Len(lines)
    THEN newLines
    ELSE LET line == lines[i]
         IN IF includes(line, tableTitleIndicator)
            THEN RemoveTable(lines, i + 1, TRUE, newLines)
            ELSE IF /\ inTableToRemove
                    /\ \/ IsTableRow(line)
                       \/ /\ trim(line) = <<"-", "-", "-">>
                          /\ Len(newLines) > 0
                          /\ IsTableRow(newLines[Len(newLines)])
                 THEN RemoveTable(lines, i + 1, TRUE, newLines)
                 ELSE RemoveTable(lines, i + 1, FALSE, Append(newLines, line))

\* text.replace(/📸/g, '(建議附照片)')
RECURSIVE ReplaceCamera(_)
ReplaceCamera(text) ==
    IF text = <<>> THEN <<>>
    ELSE (IF Head(text) = "camera" THEN PHOTO_NOTE ELSE <<Head(text)>>)
         \o ReplaceCamera(Tail(text))

\* Mutant: the scan runs from the oldest row on.
firstTongZhengIndex(historyRows) ==
    LET found == {i \in 1..Len(historyRows) :
                     /\ historyRows[i].sender = "user"
                     /\ includes(toLowerCase(historyRows[i].content), CMD_SUMMARY)}
    IN IF found = {} THEN 0 ELSE CHOOSE i \in found : \A j \in found : i <= j

\* The scan from the newest row back for a human row with '統整建議';
\* 0 when there is none (rows are numbered from 1).
lastTongZhengIndex(historyRows) ==
    LET found == {i \in 1..Len(historyRows) :
                     /\ historyRows[i].sender = "user"
                     /\ includes(toLowerCase(historyRows[i].content), CMD_SUMMARY)}
    IN IF found = {} THEN 0 ELSE CHOOSE i \in found : \A j \in found : j <= i

\* Mutant: the newest row, whoever sent it.
lastMessageIndex(historyRows) == Len(historyRows)

\* The newest assistant row; 0 when there is none.
lastAiMessageIndex(historyRows) ==
    LET found == {i \in 1..Len(historyRows) : historyRows[i].sender = "ai"}
    IN IF found = {} THEN 0 ELSE CHOOSE i \in found : \A j \in found : j <= i

\* finalOptimizedMenuMarkdown as the two searches leave it: the assistant row
\* right after the command row, else (also when that row's text is empty)
\* the newest assistant row, else ''.
SelectedAdvice(historyRows) ==
    LET t == lastTongZhengIndex(historyRows)
        a == lastAiMessageIndex(historyRows)
        answer == IF t # 0 /\ t + 1 <= Len(historyRows) /\ historyRows[t + 1].sender = "ai"
                  THEN historyRows[t + 1].content
                  ELSE <<>>
    IN IF answer # <<>> THEN answer
       ELSE IF a # 0 THEN historyRows[a].content
       ELSE <<>>

\* finalOptimizedMenuMarkdown after the table is taken out and the camera
\* pictographs are replaced.
finalOptimizedMenuMarkdown(historyRows) ==
    LET selected == SelectedAdvice(historyRows)
    IN IF selected = <<>> THEN <<>>
       ELSE ReplaceCamera(trim(JoinLines(RemoveTable(SplitLines(selected), 1, FALSE, <<>>))))

\* Mutant: the placeholder only when no text was selected.
section2ContentOfSelection(historyRows) ==
    LET selected == SelectedAdvice(historyRows)
    IN IF selected # <<>>
       THEN [placeholder |-> FALSE, text |-> selected]
       ELSE [placeholder |-> TRUE, text |-> <<>>]

\* section2Content: the advice, or the placeholder when the advice is blank.
section2Content(historyRows) ==
    LET advice == finalOptimizedMenuMarkdown(historyRows)
    IN IF advice # <<>> /\ trim(advice) # <<>>
       THEN [placeholder |-> FALSE, text |-> advice]
       ELSE [placeholder |-> TRUE, text |-> <<>>]

----------------------------------------------------------------------------
(* Closing report: the Markdown of the completion and the document blocks *)

\* markdownReportContent.match(/(fence)markdown\s*([\s\S]*?)\s*(fence)/): the
\* leftmost fence tagged markdown that has three backquotes somewhere after
\* it; group 1 is what lies between it and the nearest of those, without
\* the whitespace at either end.
markdownMatch(markdownReportContent) ==
    LET text == markdownReportContent
        opens == {i \in 1..Len(text) :
                     text[i] = "FENCE_MD" /\ ClosingFences(text, i) # {}}
    IN IF opens = {}
       THEN [found |-> FALSE, group |-> <<>>]
       ELSE LET i == CHOOSE k \in opens : \A m \in opens : k <= m
                j == CHOOSE c \in ClosingFences(text, i) :
                         \A d \in ClosingFences(text, i) : c <= d
            IN [found |-> TRUE, group |-> trim(SubSeq(text, i + 1, j - 1))]

\* finalMarkdown: group 1 trimmed when there is a match and the group is
\* not empty (`markdownMatch && markdownMatch[1]`), else the whole response
\* trimmed.
finalMarkdown(markdownReportContent) ==
    LET match == markdownMatch(markdownReportContent)
    IN IF match.found /\ match.group # <<>>
       THEN trim(match.group)
       ELSE trim(markdownReportContent)

\* String.prototype.startsWith
startsWith(text, prefix) == MatchesAt(text, 1, prefix)

\* Length of what /^\d+\.\s/ matches at the start of text; 0 for no match.
NumberedPrefix(text) ==
    LET ends == {d \in 1..Len(text) :
                    /\ \A i \in 1..d : text[i] \in Digits
                    /\ d + 2 <= Len(text)
                    /\ text[d + 1] = "."
                    /\ text[d + 2] \in Whitespace}
    IN IF ends = {} THEN 0 ELSE (CHOOSE d \in ends : TRUE) + 2

\* A Paragraph of the document: its kind, the heading level (0 for none) and
\* its text.
Block(kind, level, text) == [kind |-> kind, level |-> level, text |-> text]

HASH == <<"#">>
SEPARATOR_TEXT == <<"_">>

\* Mutant: the markers are matched without the space after them.
ParagraphOfHashOnly(line) ==
    LET trimmedLine == trim(line)
        rest(n) == trim(SubSeq(trimmedLine, n + 1, Len(trimmedLine)))
    IN IF startsWith(trimmedLine, HASH) THEN Block("heading", 1, rest(1))
       ELSE IF trimmedLine = <<"-", "-", "-">> THEN Block("separator", 0, SEPARATOR_TEXT)
       ELSE IF startsWith(trimmedLine, <<"*">>) THEN Block("bullet", 0, rest(1))
       ELSE IF NumberedPrefix(trimmedLine) # 0
            THEN Block("numbered", 0, rest(NumberedPrefix(trimmedLine)))
       ELSE IF trimmedLine = <<>> THEN Block("blank", 0, <<" ">>)
       ELSE Block("paragraph", 0, line)

\* The body of the loop over the lines: the Paragraph pushed for one line.
\* The tests run in the order of the code; the text of a heading, bullet or
\* numbered item is what follows the marker, trimmed; a plain paragraph
\* carries the line as it is.
ParagraphOf(line) ==
    LET trimmedLine == trim(line)
        rest(n) == trim(SubSeq(trimmedLine, n + 1, Len(trimmedLine)))
    IN IF startsWith(trimmedLine, HASH \o <<" ">>)
       THEN Block("heading", 1, rest(2))
       ELSE IF startsWith(trimmedLine, HASH \o HASH \o <<" ">>)
       THEN Block("heading", 2, rest(3))
       ELSE IF startsWith(trimmedLine, HASH \o HASH \o HASH \o <<" ">>)
       THEN Block("heading", 3, rest(4))
       ELSE IF startsWith(trimmedLine, HASH \o HASH \o HASH \o HASH \o <<" ">>)
       THEN Block("heading", 4, rest(5))
       ELSE IF trimmedLine = <<"-", "-", "-">>
       THEN Block("separator", 0, SEPARATOR_TEXT)
       ELSE IF startsWith(trimmedLine, <<"*", " ">>)
       THEN Block("bullet", 0, rest(2))
       ELSE IF NumberedPrefix(trimmedLine) # 0
       THEN Block("numbered", 0, rest(NumberedPrefix(trimmedLine)))
       ELSE IF trimmedLine = <<>>
       THEN Block("blank", 0, <<" ">>)
       ELSE Block("paragraph", 0, line)

\* The two Paragraphs pushed when the logo file can be read: the image and
\* the space after it.
LogoParagraphs(logoRead) ==
    IF logoRead
    THEN <<Block("image", 0, <<>>), Block("blank", 0, <<" ">>)>>
    ELSE <<>>

\* docChildren of generateDocxReportBuffer: the logo Paragraphs, if any, and
\* then one Paragraph for each line of (markdownContent || "").split('\n').
docChildren(markdownContent, logoRead) ==
    LET lines == SplitLines(markdownContent)
    IN LogoParagraphs(logoRead) \o [i \in 1..Len(lines) |-> ParagraphOf(lines[i])]

----------------------------------------------------------------------------
(* State *)

\* No menu linked: conversations.menu_id IS NULL.
NoMenu == 0

NewConversation(menuId) ==
    [menu_id |-> menuId, status |-> "pending_info",
     report_coach_name |-> NULL, report_end_date |-> NULL,
     report_restaurant_name |-> NULL,
     target_aov |-> NULL, target_audience |-> NULL]

\* What the last step did: which handler ran on which text and status, the
\* completion response it got, the calls it made, and the tables before it.
Outcome(handler, text, response, r) ==
    [handler |-> handler, text |-> text, response |-> response,
     status |-> IF Len(conversations) > 0 THEN conversations[1].status ELSE "none",
     threw |-> r.threw, failedAt |-> r.failedAt,
     posts |-> r.posts, uploads |-> r.uploads, calls |-> r.calls,
     spawned |-> r.spawned, extractFailed |-> r.extractFailed,
     history |-> r.history, passed |-> r.passed,
     acquired |-> r.acquired, released |-> r.released,
     selected |-> <<>>, section2 |-> [placeholder |-> FALSE, text |-> <<>>],
     conversationsBefore |-> conversations, messagesBefore |-> messages]

\* The closing-report task: where it is, the state of the connection it was
\* given, the sub-flow that started it and the completion calls it has made.
IdleReport == [pc |-> "idle", dbClient |-> "none", cycle |-> 0, calls |-> 0]

Init ==
    /\ menus = <<>>
    /\ conversations = <<>>
    /\ messages = <<>>
    /\ report = IdleReport
    /\ cycles = 0
    /\ last = [handler |-> "init", text |-> <<>>, response |-> <<>>,
               status |-> "none", threw |-> FALSE, failedAt |-> 0,
               posts |-> <<>>, uploads |-> <<>>, calls |-> 0, spawned |-> FALSE,
               extractFailed |-> FALSE, history |-> <<>>, passed |-> <<>>,
               selected |-> <<>>, section2 |-> [placeholder |-> FALSE, text |-> <<>>],
               conversationsBefore |-> <<>>, messagesBefore |-> <<>>]

\* The effect of a threaded-message handler run r on the variables.  The
\* closing-report task, when the handler started it, keeps the handler's
\* connection, which the handler's finally block has released to the pool.
Handled(handler, text, response, r) ==
    /\ conversations' = r.conversations
    /\ messages' = r.messages
    /\ menus' = menus
    /\ report' = IF r.spawned
                 THEN [pc |-> "read", dbClient |-> "released", cycle |-> cycles, calls |-> 0]
                 ELSE report
    /\ last' = Outcome(handler, text, response, r)

----------------------------------------------------------------------------
(* boltApp.message: one action per branch of the threaded-message handler *)

\* pool.connect() and the SELECT of the conversation by channel and thread.
Lookup == <<Connect, Query>>

\* Mutant: the branches of 'active' are taken in every status.
StatusIsOrActive(status) ==
    /\ Len(conversations) > 0
    /\ (conversations[1].status = status \/ status = "active")

StatusIs(status) == Len(conversations) > 0 /\ conversations[1].status = status

\* `if (!menuId) throw`, the SELECT of the menu row, `if (rows.length === 0) throw`
MenuLookup ==
    (IF conversations[1].menu_id = NoMenu THEN <<Throw>> ELSE <<>>) \o
    <<Query>> \o
    (IF conversations[1].menu_id > Len(menus) THEN <<Throw>> ELSE <<>>)

\* Mutant: the analysis is committed without the status being set.
PendingInfoScriptKeepsStatus(text, resp) ==
    Lookup \o MenuLookup \o
    <<Extract(TRUE)>> \o
    <<Post("ack_info", <<>>),
      Gemini,
      Begin,
      Insert("user", text),
      Insert("ai", resp),
      Update([target_aov |-> TargetAovOf[text],
              target_audience |-> TargetAudienceOf[text]]),
      Commit,
      Post("analysis", resp)>>

\* status 'pending_info': the initial analysis.  Here a failed extraction
\* (OCR or the file read) is thrown again.
PendingInfoScript(text, resp) ==
    Lookup \o MenuLookup \o
    <<Extract(TRUE)>> \o
    <<Post("ack_info", <<>>),
      Gemini,
      Begin,
      Insert("user", text),
      Insert("ai", resp),
      Update([status |-> "active",
              target_aov |-> TargetAovOf[text],
              target_audience |-> TargetAudienceOf[text]]),
      Commit,
      Post("analysis", resp)>>

HandlePendingInfo ==
    /\ StatusIs("pending_info")
    /\ \E raw \in BackgroundTexts :
         LET text == sanitizeStringForDB(raw)
             steps == PendingInfoScript(text, NoResponse)
         IN \E fail \in 0..Len(steps) : \E answer \in AnswersTo(steps, fail, AdviceResponses) :
                LET resp == callGemini(answer)
                IN Handled("pending_info", text, resp,
                           RunHandler(PendingInfoScript(text, resp), fail))
    /\ UNCHANGED cycles

IsSummaryCommand(text) == includes(toLowerCase(text), CMD_SUMMARY)

IsExcelCommand(text) ==
    \/ includes(toLowerCase(text), CMD_CSV)
    \/ includes(toLowerCase(text), CMD_EXCEL)

IsReportCommand(text) == includes(toLowerCase(text), CMD_REPORT)

\* Mutant: the chain has no branch for the summary command.
ActiveBranchWithoutSummary(text) ==
    IF IsExcelCommand(text) THEN "excel"
    ELSE IF IsReportCommand(text) THEN "report_command"
    ELSE "chat"

\* The if / else-if chain of the 'active' state.
ActiveBranch(text) ==
    IF IsSummaryCommand(text) THEN "summary"
    ELSE IF IsExcelCommand(text) THEN "excel"
    ELSE IF IsReportCommand(text) THEN "report_command"
    ELSE "chat"

ActiveBranchOf ==
    [t \in {sanitizeStringForDB(raw) : raw \in ActiveTexts} |-> ActiveBranch(t)]

\* Mutant: the answer to the command is stored as a Turn.
SummaryScriptPersisting(resp, historyRows) ==
    Lookup \o <<Post("ack_summary", <<>>)>> \o MenuLookup \o
    <<Extract(FALSE), History(historyRows), GeminiWith(geminiHistory(historyRows)),
      Insert("ai", resp), Post("summary", resp)>>

\* '統整建議': acknowledges, reads the menu (a failed extraction is only
\* logged) and the history, calls the completion service, posts the answer.
SummaryScript(resp, historyRows) ==
    Lookup \o <<Post("ack_summary", <<>>)>> \o MenuLookup \o
    <<Extract(FALSE), History(historyRows), GeminiWith(geminiHistory(historyRows)),
      Post("summary", resp)>>

HandleSummaryCommand ==
    /\ StatusIs("active")
    /\ \E raw \in ActiveTexts :
         LET text == sanitizeStringForDB(raw)
             steps == SummaryScript(NoResponse, messages)
         IN /\ ActiveBranchOf[text] = "summary"
            /\ \E fail \in 0..Len(steps) :
                 \E answer \in AnswersTo(steps, fail, AdviceResponses) :
                 \E historyRows \in ReadsWhenReached(steps, fail) :
                     LET resp == callGemini(answer)
                     IN Handled("summary", text, resp,
                                RunHandler(SummaryScript(resp, historyRows), fail))
    /\ UNCHANGED cycles

\* Mutant: the failure message does not carry the raw response.
ExcelScriptGenericError(resp) ==
    Lookup \o <<Post("ack_excel", <<>>)>> \o MenuLookup \o
    <<Extract(FALSE), Query, Gemini>> \o
    (LET excelBuffer == ExcelBufferOf[resp]
     IN IF excelBuffer.ok
        THEN <<Upload(excelBuffer.rows)>>
        ELSE <<Post("excel_error", <<>>)>>)

\* '提供 excel' / '提供 csv': the same up to the completion call, then the
\* workbook is uploaded, or the raw response is posted when there is none.
ExcelScript(resp) ==
    Lookup \o <<Post("ack_excel", <<>>)>> \o MenuLookup \o
    <<Extract(FALSE), Query, Gemini>> \o
    (LET excelBuffer == ExcelBufferOf[resp]
     IN IF excelBuffer.ok
        THEN <<Upload(excelBuffer.rows)>>
        ELSE <<Post("excel_error", resp)>>)

HandleExcelCommand ==
    /\ StatusIs("active")
    /\ \E raw \in ActiveTexts :
         LET text == sanitizeStringForDB(raw)
             steps == ExcelScript(NoResponse)
         IN /\ ActiveBranchOf[text] = "excel"
            /\ \E fail \in 0..Len(steps) : \E answer \in AnswersTo(steps, fail, Responses) :
                   LET resp == callGemini(answer)
                   IN Handled("excel", text, resp, RunHandler(ExcelScript(resp), fail))
    /\ UNCHANGED cycles

\* Mutant: the sub-flow starts whether or not a menu is linked.
ReportCommandScriptNoGuard ==
    Lookup \o
    <<Update([status |-> "pending_report_coach_name"]),
      Post("ask_coach_name", <<>>)>>

\* '產出結案報告': without a menu an error is posted; with one the report
\* sub-flow starts by asking for the coach's name.
ReportCommandScript ==
    Lookup \o
    (IF conversations[1].menu_id = NoMenu
     THEN <<Post("no_menu_error", <<>>)>>
     ELSE <<Update([status |-> "pending_report_coach_name"]),
            Post("ask_coach_name", <<>>)>>)

HandleReportCommand ==
    /\ StatusIs("active")
    /\ cycles < MaxReports
    /\ \E raw \in ActiveTexts :
         LET text == sanitizeStringForDB(raw)
             script == ReportCommandScript
         IN /\ ActiveBranchOf[text] = "report_command"
            /\ \E fail \in 0..Len(script) :
                   LET r == RunHandler(script, fail)
                   IN /\ Handled("report_command", text, <<>>, r)
                      /\ cycles' = IF r.conversations[1].status = "pending_report_coach_name"
                                   THEN cycles + 1 ELSE cycles

\* Any other text in 'active': a plain chat exchange.
ChatScript(text, resp) ==
    Lookup \o
    <<Query, Begin, Insert("user", text), Gemini, Insert("ai", resp), Commit,
      Post("chat", resp)>>

HandleRegularChat ==
    /\ StatusIs("active")
    /\ Len(messages) + 2 <= MaxTurns
    /\ \E raw \in ActiveTexts :
         LET text == sanitizeStringForDB(raw)
             steps == ChatScript(text, NoResponse)
         IN /\ ActiveBranchOf[text] = "chat"
            /\ \E fail \in 0..Len(steps) : \E answer \in AnswersTo(steps, fail, AdviceResponses) :
                   LET resp == callGemini(answer)
                   IN Handled("chat", text, resp, RunHandler(ChatScript(text, resp), fail))
    /\ UNCHANGED cycles

\* status 'pending_report_coach_name': any text is the name.
CoachNameScript(text) ==
    Lookup \o
    <<Update([status |-> "pending_report_end_date", report_coach_name |-> text]),
      Post("ask_end_date", <<>>)>>

HandleCoachName ==
    /\ StatusIs("pending_report_coach_name")
    /\ \E raw \in NameTexts :
         LET text == sanitizeStringForDB(raw)
             script == CoachNameScript(text)
         IN \E fail \in 0..Len(script) :
                Handled("coach_name", text, <<>>, RunHandler(script, fail))
    /\ UNCHANGED cycles

\* The validation of the closing date.
IsDate(text) == RegexTestAnchored(DATE_PATTERN, text)

IsDateOf == [t \in {sanitizeStringForDB(raw) : raw \in DateTexts} |-> IsDate(t)]

\* status 'pending_report_end_date': a text of the date's shape is stored,
\* any other gets the format error.
EndDateScript(text) ==
    Lookup \o
    (IF ~IsDateOf[text]
     THEN <<Post("date_format_error", <<>>)>>
     ELSE <<Update([report_end_date |-> text]),
            Update([status |-> "pending_report_restaurant_name"]),
            Post("ask_restaurant_name", <<>>)>>)

HandleEndDate ==
    /\ StatusIs("pending_report_end_date")
    /\ \E raw \in DateTexts :
         LET text == sanitizeStringForDB(raw)
             script == EndDateScript(text)
         IN \E fail \in 0..Len(script) :
                Handled("end_date", text, <<>>, RunHandler(script, fail))
    /\ UNCHANGED cycles

\* Mutant: the task is started without the status being set.
RestaurantNameScriptKeepsStatus(text) ==
    Lookup \o
    <<Update([report_restaurant_name |-> text]),
      Post("ack_report", <<>>),
      Spawn>>

\* status 'pending_report_restaurant_name': stores the name, acknowledges and
\* calls generateAndSendFinalReport without awaiting it.
RestaurantNameScript(text) ==
    Lookup \o
    <<Update([status |-> "generating_report", report_restaurant_name |-> text]),
      Post("ack_report", <<>>),
      Spawn>>

HandleRestaurantName ==
    /\ StatusIs("pending_report_restaurant_name")
    /\ \E raw \in NameTexts :
         LET text == sanitizeStringForDB(raw)
             script == RestaurantNameScript(text)
         IN \E fail \in 0..(Len(script) - 1) :
                Handled("restaurant_name", text, <<>>, RunHandler(script, fail))
    /\ UNCHANGED cycles

\* Mutant: the generation is started again.
GeneratingReportScriptRestarts == Lookup \o <<Post("please_wait", <<>>), Spawn>>

\* status 'generating_report': the human is told to wait.
GeneratingReportScript == Lookup \o <<Post("please_wait", <<>>)>>

HandleGeneratingReport ==
    /\ StatusIs("generating_report")
    /\ \E raw \in WaitTexts :
         LET text == sanitizeStringForDB(raw)
             script == GeneratingReportScript
         IN \E fail \in 0..Len(script) :
                Handled("generating_report", text, <<>>, RunHandler(script, fail))
    /\ UNCHANGED cycles

\* Mutant: the human is told that no conversation was found.
NoConversationScriptReplying == Lookup \o <<Post("error", <<>>)>>

\* No row for the channel and thread (`convRes.rows.length > 0` is false):
\* a warning is logged.
NoConversationScript == Lookup

\* A message in a thread that has no Conversation: a thread the bot was not
\* mentioned in with a file, or a reply that arrives after the questions
\* were posted and before processAndStoreFile has committed the rows.
HandleNoConversation ==
    /\ conversations = <<>>
    /\ \E raw \in WaitTexts :
         LET text == sanitizeStringForDB(raw)
             script == NoConversationScript
         IN \E fail \in 0..Len(script) :
                Handled("no_conversation", text, <<>>, RunHandler(script, fail))
    /\ UNCHANGED cycles

----------------------------------------------------------------------------
(* app_mention: the mention of the bot, and processAndStoreFile *)

\* The menus row as stored, and the file as Slack names it (with a NUL
\* character in the name) and as it is written to the upload directory.
MENU_FILE == [filename |-> <<"m", "e", "n", "u">>, filepath |-> <<"u", ".", "t", "x", "t">>]
RAW_FILE == [name |-> <<"m", "NUL", "e", "n", "u">>, downloadedFilePath |-> <<"u", ".", "t", "x", "t">>]

\* The steps of processAndStoreFile that can throw: 1 files.info, 2 the
\* checks of the type and of the download link, 3 the download, 4
\* fs.writeFile, 5 pool.connect, 6 BEGIN, 7 INSERT INTO menus, 8 INSERT INTO
\* conversations, 9 COMMIT.
StoreSteps == 9
INSERT_MENUS == 7
INSERT_CONVERSATIONS == 8

\* Mutant: the catch block does not roll back; what was inserted stays.
processAndStoreFileWithoutRollback(fileInfo, fail) ==
    LET row == [filename |-> sanitizeStringForDB(fileInfo.name),
                filepath |-> sanitizeStringForDB(fileInfo.downloadedFilePath)]
    IN [menus |-> IF fail = 0 \/ fail > INSERT_MENUS THEN Append(menus, row) ELSE menus,
        conversations |-> IF fail = 0 \/ fail > INSERT_CONVERSATIONS
                          THEN <<NewConversation(Len(menus) + 1)>>
                          ELSE conversations,
        threw |-> fail # 0]

\* processAndStoreFile when step fail throws (0: none does): the tables
\* after it.  The two rows are inserted between BEGIN and COMMIT, and the
\* catch block of the transaction rolls back before it throws again.
processAndStoreFile(fileInfo, fail) ==
    LET row == [filename |-> sanitizeStringForDB(fileInfo.name),
                filepath |-> sanitizeStringForDB(fileInfo.downloadedFilePath)]
    IN IF fail = 0
       THEN [menus |-> Append(menus, row),
             conversations |-> <<NewConversation(Len(menus) + 1)>>,
             threw |-> FALSE]
       ELSE [menus |-> menus, conversations |-> conversations, threw |-> TRUE]

\* A mention without a file is answered with a hint.  A mention with a file
\* is answered with the questions (when that say() throws the handler ends
\* there) and processAndStoreFile is started; its catch block posts the
\* error to the thread.
AppMention ==
    /\ conversations = <<>>
    /\ \/ /\ last' = [Outcome("app_mention", <<>>, <<>>, StartRun) EXCEPT
                        !.posts = <<[tag |-> "attach_hint", body |-> <<>>]>>]
          /\ UNCHANGED <<menus, conversations>>
       \/ /\ last' = [Outcome("app_mention", RAW_FILE.name, <<>>, StartRun) EXCEPT
                        !.threw = TRUE,
                        !.failedAt = 1,
                        !.posts = <<[tag |-> "ask_info", body |-> <<>>]>>]
          /\ UNCHANGED <<menus, conversations>>
       \/ \E fail \in 0..StoreSteps :
             LET stored == processAndStoreFile(RAW_FILE, fail)
             IN /\ menus' = stored.menus
                /\ conversations' = stored.conversations
                /\ last' = [Outcome("app_mention", RAW_FILE.name, <<>>, StartRun) EXCEPT
                              !.threw = stored.threw,
                              !.failedAt = IF fail = 0 THEN 0 ELSE fail + 1,
                              !.posts = IF stored.threw
                                        THEN <<[tag |-> "ask_info", body |-> <<>>],
                                               [tag |-> "error", body |-> <<>>]>>
                                        ELSE <<[tag |-> "ask_info", body |-> <<>>]>>]
    /\ UNCHANGED <<messages, report, cycles>>

\* conversations.menu_id REFERENCES menus(id) ON DELETE SET NULL: when the
\* menus row is deleted in the database (no statement of the program does
\* it; the schema provides for it) the Conversation has no menu linked.
MenuDeleted ==
    /\ menus # <<>>
    /\ menus' = <<>>
    /\ conversations' = UpdateRow(conversations, [menu_id |-> NoMenu])
    /\ last' = [Outcome("menu_deleted", <<>>, <<>>, StartRun) EXCEPT
                  !.status = "none"]
    /\ UNCHANGED <<messages, report, cycles>>

----------------------------------------------------------------------------
(* generateAndSendFinalReport: the closing-report task *)

\* The task runs on the dbClient of the handler that started it, after that
\* handler's finally block has released it.  Its steps, between awaits:
\*   "read"      the SELECTs, the extraction, the template file
\*   "generate"  the completion call, the DOCX, the upload, the success post
\*   "finally"   the UPDATE that sets the status back to 'active'
TaskStep(handler, threw, posts, calls, uploads) ==
    [handler |-> handler, text |-> <<>>, response |-> <<>>,
     status |-> IF Len(conversations) > 0 THEN conversations[1].status ELSE "none",
     threw |-> threw, failedAt |-> 0,
     posts |-> posts, uploads |-> uploads, calls |-> calls, spawned |-> FALSE,
     extractFailed |-> FALSE, history |-> <<>>, passed |-> <<>>,
     selected |-> <<>>, section2 |-> [placeholder |-> FALSE, text |-> <<>>],
     conversationsBefore |-> conversations, messagesBefore |-> messages]

\* `!menuId || !coachName || !endDate || !restaurantName`
Falsy(text) == text = NULL \/ text = <<>>

MissingCriticalInformation(details) ==
    \/ details.menu_id = NoMenu
    \/ Falsy(details.report_coach_name)
    \/ Falsy(details.report_end_date)
    \/ Falsy(details.report_restaurant_name)

\* The pool closes a released connection that stays idle (the Pool is built
\* with the default idle timeout); a query on it is rejected from then on.
PoolIdleTimeout ==
    /\ report.pc \in {"read", "generate", "finally"}
    /\ report.dbClient = "released"
    /\ report' = [report EXCEPT !.dbClient = "ended"]
    /\ last' = TaskStep("idle_timeout", FALSE, <<>>, 0, <<>>)
    /\ UNCHANGED <<menus, conversations, messages, cycles>>

\* Up to the completion call.  The first SELECT was sent before the handler
\* released the connection; the later ones are rejected on a closed one.
\* A failed extraction of the menu text is only logged.  The advice is
\* recovered from the history, then the template is read.  Every throw lands
\* in the catch block, which posts the error.
ReportRead ==
    /\ report.pc = "read"
    /\ \E failed \in {"none", "extract", "template"} :
         LET extractOk == failed # "extract"
             templateOk == failed # "template"
             threwEarly == \/ Len(conversations) = 0
                           \/ MissingCriticalInformation(conversations[1])
                           \/ report.dbClient = "ended"
                           \/ conversations[1].menu_id > Len(menus)
             threw == threwEarly \/ ~templateOk
         IN \E historyRows \in Reads(messages) :
            /\ report' = [report EXCEPT !.pc = IF threw THEN "finally" ELSE "generate"]
            /\ last' = [TaskStep("report_read", threw,
                                 IF threw THEN <<[tag |-> "report_error", body |-> <<>>]>>
                                 ELSE <<>>,
                                 0, <<>>)
                        EXCEPT !.extractFailed = ~threwEarly /\ ~extractOk,
                               !.history = IF threwEarly THEN <<>> ELSE historyRows,
                               !.selected = IF threwEarly THEN <<>>
                                            ELSE SelectedAdvice(historyRows),
                               !.section2 = IF threwEarly THEN @
                                            ELSE section2Content(historyRows)]
    /\ UNCHANGED <<menus, conversations, messages, cycles>>

\* The completion call and what follows it; each of the four calls may fail,
\* and a failure ends in the catch block.
ReportGenerate ==
    /\ report.pc = "generate"
    /\ \E failed \in {"none", "gemini", "docx", "upload", "post"} :
         /\ report' = [report EXCEPT !.pc = "finally", !.calls = @ + 1]
         /\ last' = TaskStep("report_generate", failed # "none",
                             CASE failed = "none" -> <<[tag |-> "report_done", body |-> <<>>]>>
                               [] failed = "post" -> <<[tag |-> "report_done", body |-> <<>>],
                                                       [tag |-> "report_error", body |-> <<>>]>>
                               [] OTHER -> <<[tag |-> "report_error", body |-> <<>>]>>,
                             1,
                             IF failed \in {"gemini", "docx"} THEN <<>> ELSE <<"docx">>)
    /\ UNCHANGED <<menus, conversations, messages, cycles>>

\* finally: UPDATE conversations SET status = 'active'; when the query is
\* rejected the error is logged and the status stays.  The task ends here
\* and no longer holds the connection.
ReportFinally ==
    /\ report.pc = "finally"
    /\ conversations' = IF report.dbClient = "released"
                        THEN UpdateRow(conversations, [status |-> "active"])
                        ELSE conversations
    /\ report' = [report EXCEPT !.pc = "done", !.dbClient = "none", !.calls = 0]
    /\ last' = TaskStep("report_finally", report.dbClient # "released", <<>>, 0, <<>>)
    /\ UNCHANGED <<menus, messages, cycles>>

----------------------------------------------------------------------------
(* Specification *)

Next ==
    \/ AppMention
    \/ MenuDeleted
    \/ HandlePendingInfo
    \/ HandleSummaryCommand
    \/ HandleExcelCommand
    \/ HandleReportCommand
    \/ HandleRegularChat
    \/ HandleCoachName
    \/ HandleEndDate
    \/ HandleRestaurantName
    \/ HandleGeneratingReport
    \/ HandleNoConversation
    \/ ReportRead
    \/ ReportGenerate
    \/ ReportFinally
    \/ PoolIdleTimeout

Spec == Init /\ [][Next]_vars

----------------------------------------------------------------------------
(* Properties *)

\* The conversation row and the row as it was before the last step.
conv == conversations[1]
convBefore == last.conversationsBefore[1]

Ran(handler) == last.handler = handler
Posted(tag) == \E i \in 1..Len(last.posts) : last.posts[i].tag = tag
PostsCarrying(body) == {i \in 1..Len(last.posts) : last.posts[i].body = body}
TablesUnchanged ==
    /\ conversations = last.conversationsBefore
    /\ messages = last.messagesBefore

\* "four digits, '/', two digits, '/', two digits", position by position.
DateShaped(text) ==
    /\ Len(text) = 10
    /\ text[5] = "/"
    /\ text[8] = "/"
    /\ \A i \in {1, 2, 3, 4, 6, 7, 9, 10} : text[i] \in Digits

\* C1: once the closing-report task of the current sub-flow has run to its
\* end, the Conversation is no longer in GeneratingReport (nothing changes
\* the status of a Conversation whose task has ended, so a Conversation
\* that is in GeneratingReport then stays there forever).
C1_TaskEndLeavesGeneratingReport ==
    (report.pc = "done" /\ report.cycle = cycles) => ~StatusIs("generating_report")

\* C2: handled without an exception, the closing-report command (with a menu
\* linked) and the three answers move the Conversation from Active through
\* AwaitingPreparerName, AwaitingClosingDate and AwaitingSubjectName in that
\* order, each answer is stored and the earlier ones kept, and
\* GeneratingReport is entered only by the subject-name handler, which starts
\* the one generation task; a task runs only in GeneratingReport.
C2_ReportSubFlowInOrder ==
    /\ (Ran("report_command") /\ ~last.threw /\ convBefore.menu_id # NoMenu) =>
          /\ convBefore.status = "active"
          /\ conv.status = "pending_report_coach_name"
    /\ (Ran("coach_name") /\ ~last.threw) =>
          /\ convBefore.status = "pending_report_coach_name"
          /\ conv.status = "pending_report_end_date"
          /\ conv.report_coach_name = last.text
    /\ (Ran("end_date") /\ ~last.threw /\ DateShaped(last.text)) =>
          /\ convBefore.status = "pending_report_end_date"
          /\ conv.status = "pending_report_restaurant_name"
          /\ conv.report_end_date = last.text
          /\ conv.report_coach_name = convBefore.report_coach_name
    /\ (Ran("restaurant_name") /\ ~last.threw) =>
          /\ convBefore.status = "pending_report_restaurant_name"
          /\ conv.status = "generating_report"
          /\ conv.report_restaurant_name = last.text
          /\ conv.report_end_date = convBefore.report_end_date
          /\ conv.report_coach_name = convBefore.report_coach_name
          /\ last.spawned
          /\ report.pc = "read"
          /\ report.cycle = cycles
    /\ (StatusIs("generating_report") /\ convBefore.status # "generating_report") =>
          Ran("restaurant_name")
    /\ last.spawned =>
          (Ran("restaurant_name") /\ convBefore.status = "pending_report_restaurant_name")
    /\ report.pc \in {"read", "generate", "finally"} => StatusIs("generating_report")

\* C2 witness: the sub-flow has been walked through with a name, a date and a
\* subject, and the task has just been started.
C2_Witness ==
    /\ Ran("restaurant_name")
    /\ ~last.threw
    /\ StatusIs("generating_report")
    /\ conv.report_coach_name = T_HI
    /\ conv.report_end_date = T_DATE_OK
    /\ conv.report_restaurant_name = T_REPORT
    /\ report.pc = "read"

\* C3: in AwaitingClosingDate the text "2024/13/40" leaves the state
\* unchanged and gets the format-error reply, and the text "2024/01/15" moves
\* the Conversation to AwaitingSubjectName.
C3_DateExamples ==
    (Ran("end_date") /\ ~last.threw) =>
        /\ last.text = T_DATE_BAD =>
              /\ TablesUnchanged
              /\ Posted("date_format_error")
        /\ last.text = T_DATE_OK => conv.status = "pending_report_restaurant_name"

\* C4: in AwaitingClosingDate a text that is not four digits, '/', two
\* digits, '/', two digits changes nothing (the state stays
\* AwaitingClosingDate, no date is stored, no Turn is persisted), and the
\* reply, when nothing throws, is the format error and nothing else.
C4_MalformedDateChangesNothing ==
    (Ran("end_date") /\ ~DateShaped(last.text)) =>
        /\ TablesUnchanged
        /\ StatusIs("pending_report_end_date")
        /\ ~last.threw => last.posts = <<[tag |-> "date_format_error", body |-> <<>>]>>

\* C4 witness: a date with one digit too many was answered with the format
\* error.
C4_Witness ==
    /\ Ran("end_date")
    /\ last.text = T_DATE_LONG
    /\ ~last.threw
    /\ Posted("date_format_error")
    /\ StatusIs("pending_report_end_date")


\* The threaded-message handlers.
MessageHandlers ==
    {"pending_info", "summary", "excel", "report_command", "chat", "coach_name",
     "end_date", "restaurant_name", "generating_report"}

\* C5: whenever a step inside a message handler's try block throws (a query,
\* the extraction, the completion call, a write or a post), the
\* Conversation's state after the handler is the state before it, and the
\* error reply to the thread is attempted.
C5_ExceptionKeepsState ==
    (last.handler \in MessageHandlers /\ last.threw /\ last.failedAt > 1) =>
        /\ conv.status = convBefore.status
        /\ Posted("error")

\* What the initial analysis stores for each background text that is tried.
ExpectedTargetAov(text) == IF text = T_BACKGROUND THEN <<"3", "0", "0">> ELSE NULL
ExpectedTargetAudience(text) == IF text = T_BACKGROUND THEN <<"xue", "sheng">> ELSE NULL

\* The human Turn and the assistant Turn of the last step are the two rows
\* added to the history, in this order.
TwoTurnsAdded ==
    /\ Len(messages) = Len(last.messagesBefore) + 2
    /\ SubSeq(messages, 1, Len(last.messagesBefore)) = last.messagesBefore
    /\ messages[Len(messages) - 1].sender = "user"
    /\ messages[Len(messages) - 1].content = last.text
    /\ messages[Len(messages)].sender = "ai"
    /\ messages[Len(messages)].content = last.response

\* C6: the AwaitingInfo handler either commits everything or nothing: the
\* two Turns (background text, then analysis), the state Active and the
\* parsed target order value and audience; it commits whenever nothing
\* throws, and then exactly one assistant Turn exists.
C6_InitialAnalysisCommitsTogether ==
    Ran("pending_info") =>
        /\ \/ TablesUnchanged
           \/ /\ TwoTurnsAdded
              /\ conv.status = "active"
              /\ conv.target_aov = ExpectedTargetAov(last.text)
              /\ conv.target_audience = ExpectedTargetAudience(last.text)
              /\ Cardinality({i \in 1..Len(messages) : messages[i].sender = "ai"}) = 1
        /\ ~last.threw => ~TablesUnchanged

\* C6 witness: the labelled background text was analysed and stored.
C6_Witness ==
    /\ Ran("pending_info")
    /\ ~last.threw
    /\ last.text = T_BACKGROUND
    /\ Len(messages) = 2
    /\ conv.target_aov = <<"3", "0", "0">>
    /\ conv.status = "active"

\* C7: the initial analysis and the plain chat persist the human Turn and
\* the assistant Turn both or neither, and when the completion call or a
\* write fails (the handler throws before it posts its answer) the history
\* is what it was before the message.
C7_TurnsBothOrNeither ==
    (Ran("pending_info") \/ Ran("chat")) =>
        /\ messages = last.messagesBefore \/ TwoTurnsAdded
        /\ (last.threw /\ ~Posted("analysis") /\ ~Posted("chat")) =>
              messages = last.messagesBefore

\* C7 witness: a plain chat whose completion call failed after the human
\* Turn had been inserted.
C7_Witness ==
    /\ Ran("chat")
    /\ last.threw
    /\ last.calls = 1
    /\ ~Posted("chat")
    /\ messages = last.messagesBefore

ValidArraySizes(resp) ==
    {Len(JsonParse(SubSeq(resp, i, j)).items) :
        <<i, j>> \in {s \in (1..Len(resp)) \X (1..Len(resp)) :
                        /\ s[1] < s[2]
                        /\ JsonParse(SubSeq(resp, s[1], s[2])).kind = "array"
                        /\ Len(JsonParse(SubSeq(resp, s[1], s[2])).items) >= 1}}

\* C9: the export command whose completion response contains a valid JSON
\* array of N >= 1 items, handled without an exception, makes exactly one
\* file upload carrying N rows and posts no failure message; no Turn is
\* persisted and the state stays Active.
C9_ExportUploadsOneFile ==
    (Ran("excel") /\ ~last.threw /\ ValidArraySizes(last.response) # {}) =>
        /\ Len(last.uploads) = 1
        /\ Len(last.uploads[1]) \in ValidArraySizes(last.response)
        /\ ~Posted("excel_error")
        /\ TablesUnchanged
        /\ StatusIs("active")

\* No fenced JSON block and no bracketed span in the response, or what was
\* found does not parse.
NoItemList(resp) ==
    \/ /\ ~\E p \in 1..Len(resp) : \E q \in (p + 1)..Len(resp) :
              resp[p] = "FENCE_JSON" /\ resp[q] \in Fences
       /\ ~\E p \in 1..Len(resp) : \E q \in (p + 1)..Len(resp) :
              resp[p] = "[" /\ resp[q] = "]"
    \/ JsonParse(JsonMatch(resp).jsonString).kind = "error"

\* C10: when the export command's completion response yields no item list,
\* the handler uploads nothing, makes no second completion call, and posts
\* the raw response at most once; when nothing throws it makes one call and
\* posts, after the notice, one message that carries the raw response.
C10_ParseFailurePostsRawResponse ==
    (Ran("excel") /\ last.response # NoResponse /\ NoItemList(last.response)) =>
        /\ last.uploads = <<>>
        /\ last.calls <= 1
        /\ Cardinality(PostsCarrying(last.response)) <= 1
        /\ ~last.threw =>
              /\ last.calls = 1
              /\ last.posts = <<[tag |-> "ack_excel", body |-> <<>>],
                                [tag |-> "excel_error", body |-> last.response]>>

\* C10 witness: a response without any JSON was posted back raw.
C10_Witness ==
    /\ Ran("excel")
    /\ ~last.threw
    /\ last.response = R_PLAIN
    /\ last.uploads = <<>>
    /\ Cardinality(PostsCarrying(R_PLAIN)) = 1


\* C11: the closing-report command moves an Active Conversation to
\* AwaitingPreparerName only when a menu is linked, and does so whenever
\* nothing throws; without a menu the handler writes nothing (the state
\* stays Active) and, when nothing throws, posts the error reply only.
C11_ReportCommandNeedsMenu ==
    Ran("report_command") =>
        /\ convBefore.status = "active"
        /\ conv.status \in {"active", "pending_report_coach_name"}
        /\ conv.status = "pending_report_coach_name" => convBefore.menu_id # NoMenu
        /\ (convBefore.menu_id # NoMenu /\ ~last.threw) =>
              conv.status = "pending_report_coach_name"
        /\ convBefore.menu_id = NoMenu =>
              /\ TablesUnchanged
              /\ ~last.threw => last.posts = <<[tag |-> "no_menu_error", body |-> <<>>]>>

\* C11 witness: the command was answered with the error because the menu
\* was gone.
C11_Witness ==
    /\ Ran("report_command")
    /\ ~last.threw
    /\ convBefore.menu_id = NoMenu
    /\ Posted("no_menu_error")
    /\ StatusIs("active")


\* C12: in GeneratingReport a message changes nothing: the state stays
\* GeneratingReport, no Turn is persisted, no report field is overwritten
\* and no generation task is started; when nothing throws the reply is the
\* "please wait" message and nothing else.
C12_GeneratingReportOnlyWaits ==
    Ran("generating_report") =>
        /\ convBefore.status = "generating_report"
        /\ TablesUnchanged
        /\ ~last.spawned
        /\ last.calls = 0
        /\ last.uploads = <<>>
        /\ ~last.threw => last.posts = <<[tag |-> "please_wait", body |-> <<>>]>>

\* C12 witness: the closing-report command sent again while the report is
\* being generated was answered with "please wait".
C12_Witness ==
    /\ Ran("generating_report")
    /\ ~last.threw
    /\ last.text = T_REPORT
    /\ Posted("please_wait")
    /\ report.pc \in {"read", "generate", "finally"}

\* The steps of the closing-report task.
TaskHandlers == {"report_read", "report_generate", "report_finally"}

\* C13: handling one message makes at most one completion call, and one
\* closing-report task makes at most one, also when the call or a later
\* step fails.
C13_NoAutomaticRetry ==
    /\ last.handler \in MessageHandlers \cup TaskHandlers => last.calls <= 1
    /\ report.calls <= 1

\* C13 witness: a plain chat whose completion call failed; the call was made
\* once.
C13_Witness ==
    /\ Ran("chat")
    /\ last.threw
    /\ last.failedAt = 6
    /\ last.calls = 1
    /\ Posted("error")


\* C14: in every stage that extracts the menu text, a failed extraction
\* ends the turn: no completion call is made, and the failure is reported to
\* the thread; the closing-report task does not go on to the generation.
C14_ExtractionFailureIsFatal ==
    /\ (last.handler \in {"pending_info", "summary", "excel"} /\ last.extractFailed) =>
          /\ last.calls = 0
          /\ Posted("error")
    /\ (Ran("report_read") /\ last.extractFailed) =>
          /\ report.pc # "generate"
          /\ Posted("report_error")


----------------------------------------------------------------------------
(* The pure functions, applied to bounded inputs *)

\* Longest tag, longest item name and most items of an array that are tried.
MaxTagLen == 5
MaxNameLen == 4
MaxItems == 3

SeqsUpTo(S, n) == UNION {[1..k -> S] : k \in 0..n}

\* Tags over the characters of the (+Number) pattern and one other.
TagInputs == SeqsUpTo({"(", "+", "7", ")", "a"}, MaxTagLen)

\* Names over two pictographs of the removed ranges, whitespace and an
\* ordinary character.
NameInputs == SeqsUpTo({"star", "camera", " ", "a"}, MaxNameLen)

\* The items of a JSON array as lexemes: the values with commas between.
RECURSIVE ArrayBody(_)
ArrayBody(items) ==
    IF Len(items) = 0 THEN <<>>
    ELSE IF Len(items) = 1 THEN <<items[1]>>
    ELSE <<items[1], ",", " ">> \o ArrayBody(Tail(items))

\* A response that is one fenced JSON array of the given items.
FencedArray(items) ==
    <<"FENCE_JSON", "LF", "[">> \o ArrayBody(items) \o <<"]", "LF", "FENCE">>

ItemLexemes == {"{burger}", "{salad}", "{fries}", "{tea}", "{water}", "{soup}", "{fish}"}

\* Responses from which no item list comes: no JSON at all, JSON that does
\* not parse, JSON that is no array, an array with a null item, the empty
\* array; each fenced and bare.
FailingResponses ==
    {<<>>, <<"o", "k">>,
     <<"FENCE_JSON", "o", "k", "FENCE">>,
     <<"FENCE_JSON", "[", "{burger}", ",", "FENCE">>,
     <<"FENCE_JSON", "[", "{burger}", "{salad}", "]", "FENCE">>,
     <<"[", "{burger}", ",", "]">>,
     <<"[", "o", "k", "]">>,
     <<"FENCE_JSON", "{burger}", "FENCE">>,
     <<"FENCE_JSON", "7", "FENCE">>,
     <<"FENCE_JSON", "null", "FENCE">>,
     <<"{burger}">>,
     <<"FENCE_JSON", "[", "{burger}", ",", "null", "]", "FENCE">>,
     <<"[", "null", "]">>,
     <<"FENCE_JSON", "[", "]", "FENCE">>,
     <<"FENCE_JSON", " ", "[", " ", "]", "LF", "FENCE">>,
     <<"[", "]">>,
     <<"FENCE_JSON", "FENCE">>}

\* Responses to the export command with remarks around the JSON: nothing, a
\* bracketed remark, plain words or an open bracket in front; a fenced array,
\* a bare array or nothing in the middle; nothing or a bracketed remark
\* behind.
RemarksBefore == {<<>>, <<"[", "7", "]", " ">>, <<"o", "k", " ">>, <<"[", " ">>}
JsonParts == {<<>>, FencedArray(<<"{burger}">>), <<"[", "{salad}", "]">>}
RemarksAfter == {<<>>, <<" ", "[", "7", "]">>}
RemarkedResponses ==
    {before \o json \o after :
        before \in RemarksBefore, json \in JsonParts, after \in RemarksAfter}

\* Completions answering the closing-report prompt: every text of at most
\* MaxResponseLen lexemes over the two fences, a line break and a letter.
MaxResponseLen == 4
MarkdownResponses == SeqsUpTo({"FENCE_MD", "FENCE", "LF", "a"}, MaxResponseLen)

\* Markdown handed to the document conversion: every single line of at most
\* MaxLineLen symbols over the marker symbols, and every text of at most
\* MaxLines lines drawn from samples of each kind of line and of lines
\* that come close to one.
MaxLineLen == 4
MaxLines == 2
LineSymbols == {"#", " ", "-", "*", "1", ".", "a"}
SampleLines ==
    {<<"#", "#", "#", "#", " ", "a">>, <<"#", "#", "#", " ", "a">>,
     <<"#", "#", " ", "a">>, <<"#", " ", "a">>, <<" ", "#", "#", "#", "#", " ", "a", " ">>,
     <<"#", "#", "#", "#", "#", " ", "a">>, <<"#", "#", "#", "#">>,
     <<"-", "-", "-">>, <<" ", "-", "-", "-", " ">>, <<"-", "-", "-", "-">>,
     <<"-", "-", "-", " ", "a">>,
     <<"*", " ", "a">>, <<"*", "*", "a", "*", "*">>,
     <<"1", ".", " ", "a">>, <<"1", "2", ".", "TAB", "a">>, <<"1", ".", "a">>,
     <<>>, <<" ">>, <<"a">>, <<" ", "a", " ">>}
Documents ==
    SeqsUpTo(LineSymbols, MaxLineLen)
        \cup {JoinLines(lines) : lines \in SeqsUpTo(SampleLines, MaxLines)}

\* Advice of the assistant that the closing report starts from: every text
\* of at most MaxAdviceLines lines, each the title of the strategy table, a
\* row of a table, a rule or a plain line.
MaxAdviceLines == 4
TITLE_LINE == tableTitleIndicator \o <<"*", "*">>
ROW_LINE == <<"|", "a", "|">>
RULE_LINE == <<"-", "-", "-">>
AdviceLines == {TITLE_LINE, ROW_LINE, RULE_LINE, <<"a">>}
Advices == {JoinLines(lines) : lines \in SeqsUpTo(AdviceLines, MaxAdviceLines)}

\* Completions answering the closing-report prompt that carries
\* section2Content: the section in a fenced block tagged markdown, the
\* section as it is, and a report that has a strategy table of its own.
Quoted(text) == <<"FENCE_MD", "LF">> \o text \o <<"LF", "FENCE">>
ReportAnswers(section2) ==
    {Quoted(section2.text), section2.text,
     <<"#", " ", "a", "LF">> \o TITLE_LINE \o <<"LF">> \o ROW_LINE}

\* An input before the function is applied, and the result after.
PureInput(kind, input, items) ==
    [handler |-> "input", kind |-> kind, input |-> input, items |-> items,
     result |-> <<>>]

PureInit ==
    /\ menus = <<>>
    /\ conversations = <<>>
    /\ messages = <<>>
    /\ report = IdleReport
    /\ cycles = 0
    /\ last \in {PureInput("tag", t, <<>>) : t \in TagInputs}
              \cup {PureInput("name", n, <<>>) : n \in NameInputs}
              \cup {PureInput("array", FencedArray(its), its) :
                       its \in SeqsUpTo(ItemLexemes, MaxItems)}
              \cup {PureInput("failing", r, <<>>) : r \in FailingResponses}
              \cup {PureInput("remarked", r, <<>>) : r \in RemarkedResponses}
              \cup {PureInput("response", r, <<>>) : r \in MarkdownResponses}
              \cup {PureInput("document", d, <<>>) : d \in Documents}
              \cup {PureInput("advice", a, <<>>) : a \in Advices}

Apply(kind, handler, result) ==
    /\ last.handler = "input"
    /\ last.kind = kind
    /\ last' = [last EXCEPT !.handler = handler, !.result = result]
    /\ UNCHANGED <<menus, conversations, messages, report, cycles>>

ApplyPricedTagTest == Apply("tag", "PricedTagTest", PricedTagTest(last.input))

\* removeEmojis on the input, and on its own result.
ApplyRemoveEmojis ==
    Apply("name", "removeEmojis",
          [once |-> removeEmojis(last.input),
           twice |-> removeEmojis(removeEmojis(last.input))])

ApplyGenerateExcelBuffer ==
    \/ Apply("array", "generateExcelBuffer", generateExcelBuffer(callGemini(last.input)))
    \/ Apply("failing", "generateExcelBuffer", generateExcelBuffer(callGemini(last.input)))

\* The text generateExcelBuffer hands to JSON.parse.
ApplyJsonMatch == Apply("remarked", "jsonMatch", JsonMatch(callGemini(last.input)))

ApplyFinalMarkdown == Apply("response", "finalMarkdown", finalMarkdown(last.input))

\* generateDocxReportBuffer, whether or not the logo file can be read.
ApplyGenerateDocxReportBuffer ==
    \E logoRead \in BOOLEAN :
        Apply("document", "generateDocxReportBuffer",
              [logoRead |-> logoRead, docChildren |-> docChildren(last.input, logoRead)])

\* generateAndSendFinalReport from the advice on, the advice being the text
\* of the one assistant row of the history: the table is taken out of the
\* advice, the advice goes into the prompt as section2Content, and the
\* Markdown of the completion is what generateDocxReportBuffer splits into
\* lines.
ApplyGenerateAndSendFinalReport ==
    LET historyRows == <<[sender |-> "ai", content |-> last.input]>>
        section2 == section2Content(historyRows)
    IN \E response \in ReportAnswers(section2) :
           Apply("advice", "generateAndSendFinalReport",
                 [section2 |-> section2,
                  response |-> response,
                  lines |-> SplitLines(finalMarkdown(response))])

PureNext ==
    \/ ApplyPricedTagTest
    \/ ApplyRemoveEmojis
    \/ ApplyGenerateExcelBuffer
    \/ ApplyJsonMatch
    \/ ApplyFinalMarkdown
    \/ ApplyGenerateDocxReportBuffer
    \/ ApplyGenerateAndSendFinalReport

PureSpec == PureInit /\ [][PureNext]_vars


----------------------------------------------------------------------------
(* Properties of the pure functions *)

\* "An opening parenthesis, a plus sign, one or more digits and a closing
\* parenthesis in sequence", as a statement about the substrings of tag.
HasPricedSubstring(tag) ==
    \E i \in 1..Len(tag) : \E j \in 1..Len(tag) :
        /\ j >= i + 3
        /\ tag[i] = "("
        /\ tag[i + 1] = "+"
        /\ tag[j] = ")"
        /\ \A k \in (i + 2)..(j - 1) : tag[k] \in Digits

\* The positions of an item's priced tags, and the j-th of them.
PricedPositions(tags) == {p \in 1..Len(tags) : HasPricedSubstring(tags[p])}
NthOf(P, j) == CHOOSE p \in P : Cardinality({q \in P : q <= p}) = j

\* C15: a fenced JSON array of N items gives N rows in item order, and in
\* each row slots 1..k hold the item's k priced tags in their original
\* order and slots k+1..12 are empty.
C15_RowsLeftPacked ==
    (Ran("generateExcelBuffer") /\ last.kind = "array") =>
        LET rows == last.result.rows
            N == Len(last.items)
        IN /\ Len(rows) = N
           /\ N >= 1 => last.result.ok
           /\ \A i \in 1..N :
                 LET item == JsonValues[last.items[i]]
                     P == PricedPositions(item.tags)
                 IN /\ rows[i].name = removeEmojis(item.name)
                    /\ DOMAIN rows[i].tags = 1..12
                    /\ \A j \in 1..12 :
                          rows[i].tags[j] = IF j <= Cardinality(P)
                                            THEN item.tags[NthOf(P, j)]
                                            ELSE <<>>

\* C15 witness: three items, among them one whose priced tags have gaps
\* between them, were converted.
C15_Witness ==
    /\ Ran("generateExcelBuffer")
    /\ last.items = <<"{tea}", "{burger}", "{fries}">>
    /\ last.result.ok
    /\ Len(last.result.rows) = 3
    /\ last.result.rows[1].tags[4] = <<"(", "+", "5", ")">>
    /\ last.result.rows[1].tags[5] = <<>>

C17_PricedTagExactly ==
    /\ Ran("PricedTagTest") => (last.result <=> HasPricedSubstring(last.input))
    /\ Ran("generateExcelBuffer") =>
          \A i \in 1..Len(last.result.rows) : \A j \in 1..12 :
              last.result.rows[i].tags[j] # <<>> =>
                  HasPricedSubstring(last.result.rows[i].tags[j])

\* C17 witness: a tag with the pattern after an ordinary character passed.
C17_Witness ==
    /\ Ran("PricedTagTest")
    /\ last.input = <<"a", "(", "+", "7", ")">>
    /\ last.result = TRUE

\* C18: removeEmojis applied to its own result changes nothing, and the
\* result has no pictograph of the removed ranges and no whitespace at
\* either end.
C18_StripIdempotent ==
    Ran("removeEmojis") =>
        LET once == last.result.once
        IN /\ last.result.twice = once
           /\ \A i \in 1..Len(once) : once[i] \notin Emojis
           /\ once # <<>> => (once[1] \notin Whitespace /\ once[Len(once)] \notin Whitespace)

\* C18 witness: a name with a pictograph between two words, and whitespace
\* around it, was stripped.
C18_Witness ==
    /\ Ran("removeEmojis")
    /\ last.input = <<" ", "a", "star", " ">>
    /\ last.result.once = <<"a">>


----------------------------------------------------------------------------
(* The closing-report task, started on bounded histories *)

MaxExchanges == 2
MaxHistory == 4

\* An assistant text of blanks only, and one that is nothing but the table
\* that is left out of the report.
A_BLANK == <<" ", "LF">>
A_TABLE_ONLY == tableTitleIndicator \o <<"*", "*", "LF", "|", "a", "|", "LF", "|", "b", "|">>

\* messages.content of a human row: the background text (which may hold the
\* command phrase) and a chat text.
HistoryTexts == {T_HI, T_SUMMARY}
\* messages.content of an assistant row: parts.map(part => part.text).join('\n')
\* of the completion, which is '' or blank when the parts are.
HistoryAnswers == {<<>>, A_BLANK, R_PLAIN, A_TABLE_ONLY}

\* The histories the handlers write: the background text and the initial
\* analysis, then chat texts (which hold no command phrase) each with its
\* answer.  The two rows of an exchange carry one created_at.
RECURSIVE Exchanges(_)
Exchanges(n) ==
    IF n = 0 THEN {<<>>}
    ELSE LET shorter == Exchanges(n - 1)
         IN shorter \cup
            {h \o <<[sender |-> "user", content |-> text, created_at |-> Len(h)],
                    [sender |-> "ai", content |-> answer, created_at |-> Len(h)]>> :
               h \in shorter \ {<<>>}, text \in {T_HI}, answer \in HistoryAnswers} \cup
            {<<[sender |-> "user", content |-> text, created_at |-> 0],
               [sender |-> "ai", content |-> answer, created_at |-> 0]>> :
               text \in HistoryTexts, answer \in HistoryAnswers}

ExchangeHistories == Exchanges(MaxExchanges) \ {<<>>}

\* Any rows at all, in any order, with answers that are not blank: the
\* recovery as a function of the rows it reads.
RowHistories ==
    LET rows == [sender : {"user"}, content : HistoryTexts] \cup
                [sender : {"ai"}, content : {R_PLAIN, R_FENCED}]
    IN {[i \in 1..Len(h) |->
            [sender |-> h[i].sender, content |-> h[i].content, created_at |-> i - 1]] :
          h \in SeqsUpTo(rows, MaxHistory)}

\* The rows of the SELECT ... ORDER BY created_at ASC, oldest first.
Histories == ExchangeHistories \cup RowHistories

\* The Conversation whose restaurant name has just been stored: status
\* 'generating_report', the task started on the released connection.
ReportingConversation ==
    [menu_id |-> 1, status |-> "generating_report",
     report_coach_name |-> T_HI, report_end_date |-> T_DATE_OK,
     report_restaurant_name |-> T_HI,
     target_aov |-> NULL, target_audience |-> NULL]

HistoryInit ==
    /\ menus = <<MENU_FILE>>
    /\ conversations = <<ReportingConversation>>
    /\ messages \in Histories
    /\ report = [pc |-> "read", dbClient |-> "released", cycle |-> 1, calls |-> 0]
    /\ cycles = 1
    /\ last = [handler |-> "restaurant_name", text |-> T_HI, response |-> <<>>,
               status |-> "pending_report_restaurant_name",
               threw |-> FALSE, failedAt |-> 0,
               posts |-> <<[tag |-> "ack_report", body |-> <<>>]>>,
               uploads |-> <<>>, calls |-> 0, spawned |-> TRUE,
               extractFailed |-> FALSE, history |-> <<>>, passed |-> <<>>,
               selected |-> <<>>, section2 |-> [placeholder |-> FALSE, text |-> <<>>],
               conversationsBefore |->
                   <<[ReportingConversation EXCEPT
                        !.status = "pending_report_restaurant_name",
                        !.report_restaurant_name = NULL]>>,
               messagesBefore |-> messages]

HistoryNext ==
    \/ ReportRead
    \/ ReportGenerate
    \/ ReportFinally
    \/ PoolIdleTimeout

HistorySpec == HistoryInit /\ [][HistoryNext]_vars

----------------------------------------------------------------------------
(* Properties of the history recovery *)

\* historyRows: the rows the last step read from the history.
rowsRead == last.history

\* The task has read the history and recovered the advice from it (the
\* placeholder or a text that is not blank is in section 2).
Recovered ==
    /\ last.handler = "report_read"
    /\ last.section2.placeholder \/ last.section2.text # <<>>

IsCommandTurn(row) == row.sender = "user" /\ IsSummaryCommand(row.content)

\* Turn i is the most recent human Turn with the command phrase, and the
\* Turn right after it is an assistant Turn.
AnsweredLastCommand(i) ==
    /\ i \in 1..(Len(rowsRead) - 1)
    /\ IsCommandTurn(rowsRead[i])
    /\ \A j \in (i + 1)..Len(rowsRead) : ~IsCommandTurn(rowsRead[j])
    /\ rowsRead[i + 1].sender = "ai"

\* C19 as stated: whenever the most recent human Turn with the command
\* phrase is immediately followed by an assistant Turn, that Turn's text is
\* the advice selected.
C19_AnswerToLastCommandSelected ==
    Recovered =>
        \A i \in 1..Len(rowsRead) :
            AnsweredLastCommand(i) => last.selected = rowsRead[i + 1].content

\* C19, amended: whenever the most recent human Turn with the command phrase
\* is immediately followed by an assistant Turn whose text is not empty, that
\* Turn's text is the advice selected.
C19_NonEmptyAnswerToLastCommandSelected ==
    Recovered =>
        \A i \in 1..Len(rowsRead) :
            (AnsweredLastCommand(i) /\ rowsRead[i + 1].content # <<>>) =>
                last.selected = rowsRead[i + 1].content

\* The answer to the last command is selected although a newer assistant
\* Turn with another text follows it.
C19_Witness ==
    /\ Recovered
    /\ Len(rowsRead) = 4
    /\ AnsweredLastCommand(1)
    /\ rowsRead[2].content = R_PLAIN
    /\ rowsRead[4].sender = "ai"
    /\ rowsRead[4].content = A_TABLE_ONLY
    /\ last.selected = R_PLAIN
    /\ ~last.section2.placeholder


\* No human Turn with the command phrase is immediately followed by an
\* assistant Turn.
NoAnsweredCommand ==
    \A i \in 1..(Len(rowsRead) - 1) :
        ~(IsCommandTurn(rowsRead[i]) /\ rowsRead[i + 1].sender = "ai")

AssistantTurns == {i \in 1..Len(rowsRead) : rowsRead[i].sender = "ai"}

\* Turn i is the most recent assistant Turn.
IsNewestAssistantTurn(i) ==
    i \in AssistantTurns /\ \A j \in AssistantTurns : j <= i

\* The text is empty or whitespace only once the lines of the optimisation
\* table are taken out of it.
BlankWithoutTable(text) ==
    trim(JoinLines(RemoveTable(SplitLines(text), 1, FALSE, <<>>))) = <<>>

\* The fallback selects the text of the most recent assistant Turn, if any.
FallbackSelectsNewestAssistantTurn ==
    \A i \in 1..Len(rowsRead) :
        IsNewestAssistantTurn(i) => last.selected = rowsRead[i].content

\* C20 as stated: when no command Turn is immediately followed by an
\* assistant Turn, the advice is the text of the most recent assistant Turn,
\* the placeholder is used exactly when there is no assistant Turn at all,
\* and the task goes on to the generation.
C20_PlaceholderOnlyWithoutAssistantTurn ==
    (Recovered /\ NoAnsweredCommand) =>
        /\ FallbackSelectsNewestAssistantTurn
        /\ last.section2.placeholder <=> AssistantTurns = {}
        /\ ~last.threw => report.pc = "generate"

\* C20, amended: when no command Turn is immediately followed by an assistant
\* Turn, the advice is the text of the most recent assistant Turn, the
\* placeholder is used exactly when there is no assistant Turn at all or the
\* text of the most recent one is blank once the optimisation table is taken
\* out, and the task goes on to the generation.
C20_PlaceholderWhenAdviceBlank ==
    (Recovered /\ NoAnsweredCommand) =>
        /\ FallbackSelectsNewestAssistantTurn
        /\ last.section2.placeholder <=>
              \/ AssistantTurns = {}
              \/ \E i \in AssistantTurns :
                    IsNewestAssistantTurn(i) /\ BlankWithoutTable(rowsRead[i].content)
        /\ ~last.threw => report.pc = "generate"

\* The newest assistant Turn holds nothing but the table: the placeholder
\* is used although the history has assistant Turns, and the task goes on.
C20_Witness ==
    /\ Recovered
    /\ NoAnsweredCommand
    /\ Len(rowsRead) = 4
    /\ rowsRead[2].content = R_PLAIN
    /\ IsNewestAssistantTurn(4)
    /\ last.selected = A_TABLE_ONLY
    /\ last.section2.placeholder
    /\ report.pc = "generate"


\* The last Turn of the history read is from a human.
HumanTurnLast ==
    Len(rowsRead) > 0 /\ rowsRead[Len(rowsRead)].sender = "user"

----------------------------------------------------------------------------
(* Properties of the closing report's Markdown and document *)

\* The fenced block tagged markdown of a response, if any: the first fence
\* tagged markdown that is closed, and what lies between it and its closing
\* fence.
HasMarkdownBlock(text) ==
    \E i \in 1..Len(text) : \E j \in (i + 1)..Len(text) :
        text[i] = "FENCE_MD" /\ text[j] \in Fences
InnerContent(text) ==
    LET i == CHOOSE k \in 1..Len(text) :
                 /\ text[k] = "FENCE_MD"
                 /\ \A m \in 1..(k - 1) : text[m] # "FENCE_MD"
        j == CHOOSE k \in (i + 1)..Len(text) :
                 /\ text[k] \in Fences
                 /\ \A m \in (i + 1)..(k - 1) : text[m] \notin Fences
    IN SubSeq(text, i + 1, j - 1)

\* C22: Markdown extraction always succeeds: when the response holds a
\* fenced block tagged markdown the result is the block's inner content
\* trimmed, also when that content is empty; otherwise the result is the
\* whole response trimmed.
C22_MarkdownExtraction ==
    Ran("finalMarkdown") =>
        last.result = IF HasMarkdownBlock(last.input)
                      THEN trim(InnerContent(last.input))
                      ELSE trim(last.input)


\* The Paragraphs of the document that stand for the Markdown lines: those
\* after the logo's.
LineBlocks ==
    SubSeq(last.result.docChildren, Len(LogoParagraphs(last.result.logoRead)) + 1,
           Len(last.result.docChildren))

\* Whether text begins with one or more digits, a '.' and a whitespace.
StartsNumbered(text) ==
    \E d \in 1..Len(text) :
        /\ \A i \in 1..d : text[i] \in Digits
        /\ d + 2 <= Len(text)
        /\ text[d + 1] = "."
        /\ text[d + 2] \in Whitespace

\* The kind and level the claim gives a trimmed line, the longest heading
\* marker first; isRule says which lines are the rule lines.
KindOf(t, isRule) ==
    IF startsWith(t, <<"#", "#", "#", "#", " ">>) THEN <<"heading", 4>>
    ELSE IF startsWith(t, <<"#", "#", "#", " ">>) THEN <<"heading", 3>>
    ELSE IF startsWith(t, <<"#", "#", " ">>) THEN <<"heading", 2>>
    ELSE IF startsWith(t, <<"#", " ">>) THEN <<"heading", 1>>
    ELSE IF isRule THEN <<"separator", 0>>
    ELSE IF startsWith(t, <<"*", " ">>) THEN <<"bullet", 0>>
    ELSE IF StartsNumbered(t) THEN <<"numbered", 0>>
    ELSE IF t = <<>> THEN <<"blank", 0>>
    ELSE <<"paragraph", 0>>

\* C23 as stated: one block per Markdown line, in line order, the kind of
\* each found from the start of the trimmed line: '#### ' a level-4 heading,
\* '### ' level 3, '## ' level 2, '# ' level 1, '---' a separator, '* ' a
\* bullet item, digits with '.' and whitespace a numbered item, the empty
\* line a blank, anything else a plain paragraph.
C23_OneBlockPerLineByPrefix ==
    Ran("generateDocxReportBuffer") =>
        LET lines == SplitLines(last.input)
        IN /\ Len(LineBlocks) = Len(lines)
           /\ \A i \in 1..Len(lines) :
                  LET t == trim(lines[i])
                  IN <<LineBlocks[i].kind, LineBlocks[i].level>>
                         = KindOf(t, startsWith(t, <<"-", "-", "-">>))

\* C23, amended: the same, with the separator being the trimmed line that is
\* exactly '---'.
C23_OneBlockPerLine ==
    Ran("generateDocxReportBuffer") =>
        LET lines == SplitLines(last.input)
        IN /\ Len(LineBlocks) = Len(lines)
           /\ \A i \in 1..Len(lines) :
                  LET t == trim(lines[i])
                  IN <<LineBlocks[i].kind, LineBlocks[i].level>>
                         = KindOf(t, t = <<"-", "-", "-">>)

\* A two-line Markdown, a level-4 heading and a rule line, converted with the
\* logo in front.
C23_Witness ==
    /\ Ran("generateDocxReportBuffer")
    /\ last.input = <<"#", "#", "#", "#", " ", "a", "LF", "-", "-", "-">>
    /\ last.result.logoRead
    /\ Len(LineBlocks) = 2
    /\ LineBlocks[1] = Block("heading", 4, <<"a">>)
    /\ LineBlocks[2].kind = "separator"


\* The strategy-table section of the advice, line by line: the lines with
\* the heading marker, the pipe-delimited rows that follow such a line, and
\* a rule line right after the last of those rows.
IsTitle(line) == includes(line, tableTitleIndicator)
IsRowOfTable(lines, i) ==
    /\ IsTableRow(lines[i])
    /\ \E h \in 1..(i - 1) :
           /\ IsTitle(lines[h])
           /\ \A k \in (h + 1)..(i - 1) : IsTableRow(lines[k])
InTableSection(lines, i) ==
    \/ IsTitle(lines[i])
    \/ IsRowOfTable(lines, i)
    \/ trim(lines[i]) = <<"-", "-", "-">> /\ i > 1 /\ IsRowOfTable(lines, i - 1)

RECURSIVE WithoutTableSection(_, _)
WithoutTableSection(lines, i) ==
    IF i > Len(lines) THEN <<>>
    ELSE (IF InTableSection(lines, i) THEN <<>> ELSE <<lines[i]>>)
         \o WithoutTableSection(lines, i + 1)

\* C24: the lines handed to the document conversion never contain the
\* strategy-table section: none carries the heading marker, and when the
\* completion quotes the advice it was given, the lines are those of the
\* advice without the heading line, without the pipe-delimited rows after
\* it and without a rule line right after the table.
C24_DeliveredLinesHaveNoTableSection ==
    Ran("generateAndSendFinalReport") =>
        /\ \A i \in 1..Len(last.result.lines) : ~IsTitle(last.result.lines[i])
        /\ (/\ ~last.result.section2.placeholder
            /\ last.result.response = Quoted(last.result.section2.text)) =>
               last.result.lines =
                   SplitLines(trim(JoinLines(WithoutTableSection(SplitLines(last.input), 1))))


----------------------------------------------------------------------------
(* Properties of what is stored *)

HasNul(text) == \E i \in 1..Len(text) : text[i] = "NUL"

\* C25: in every reachable state no stored string (the file name and the
\* file path of a menus row, the content of a messages row, the coach name,
\* the end date, the restaurant name, the target order value and the target
\* audience of a conversations row) contains a NUL character.
C25_NoNulPersisted ==
    /\ \A i \in 1..Len(menus) :
           ~HasNul(menus[i].filename) /\ ~HasNul(menus[i].filepath)
    /\ \A i \in 1..Len(messages) : ~HasNul(messages[i].content)
    /\ \A i \in 1..Len(conversations) :
           /\ ~HasNul(conversations[i].report_coach_name)
           /\ ~HasNul(conversations[i].report_end_date)
           /\ ~HasNul(conversations[i].report_restaurant_name)
           /\ ~HasNul(conversations[i].target_aov)
           /\ ~HasNul(conversations[i].target_audience)

\* The file name, the background text, the first answer and the end date
\* all arrived with NUL characters and are stored.
C25_Witness ==
    /\ Ran("end_date")
    /\ HasNul(RAW_FILE.name) /\ menus = <<MENU_FILE>>
    /\ HasNul(RAW_BACKGROUND) /\ HasNul(RAW_PLAIN) /\ HasNul(RAW_DATE_OK)
    /\ Len(messages) >= 2
    /\ messages[1].content = sanitizeStringForDB(RAW_BACKGROUND)
    /\ messages[2].content = sanitizeStringForDB(RAW_PLAIN)
    /\ conv.target_aov = <<"3", "0", "0">>
    /\ conv.report_end_date = sanitizeStringForDB(RAW_DATE_OK)
    /\ conv.report_coach_name = sanitizeStringForDB(RAW_HI)


----------------------------------------------------------------------------
(* Properties of the history that is read and passed on *)

\* The rows of the history read that are not human rows with the command
\* phrase, by position.
KeptPositions == {i \in 1..Len(rowsRead) : ~IsCommandTurn(rowsRead[i])}

\* C26: the history passed to the completion call of the resummarize command
\* is the history read, in its order, without the human rows that contain
\* the command phrase; every other row, human or assistant, is passed with
\* its text unchanged.
C26_ResummarizeHistoryExcludesCommand ==
    (Ran("summary") /\ last.calls > 0) =>
        /\ Len(last.passed) = Cardinality(KeptPositions)
        /\ \A j \in 1..Len(last.passed) :
               LET row == rowsRead[NthOf(KeptPositions, j)]
               IN /\ last.passed[j].text = row.content
                  /\ last.passed[j].role = "model" <=> row.sender = "ai"
                  /\ last.passed[j].role = "user" <=> row.sender = "user"

\* A resummarize command on a history of four rows, the first of them the
\* background text with the command phrase in it: three rows are passed.
C26_Witness ==
    /\ Ran("summary") /\ last.calls > 0
    /\ Len(rowsRead) = 4
    /\ \E i \in 1..4 : IsCommandTurn(rowsRead[i])
    /\ Len(last.passed) = 3
    /\ \E j \in 1..3 : last.passed[j].role = "user" /\ last.passed[j].text = T_HI


\* The rows of the history read that were written by one transaction: they
\* carry one created_at.
SameTransaction(i, j) == rowsRead[i].created_at = rowsRead[j].created_at

\* C27: the history is a stable total order by creation time: every read of
\* it returns the rows in the order they were inserted, and the human row
\* and the assistant row that one handler wrote in one transaction come
\* back human first.
C27_HistoryReadInInsertionOrder ==
    rowsRead # <<>> =>
        /\ rowsRead = last.messagesBefore
        /\ \A i \in 1..Len(rowsRead) : \A j \in 1..Len(rowsRead) :
               (/\ SameTransaction(i, j)
                /\ rowsRead[i].sender = "user"
                /\ rowsRead[j].sender = "ai") => i < j


----------------------------------------------------------------------------
(* Properties of the mention *)

\* The mention came with a file, and processAndStoreFile threw at its step k.
StoreFailedAt(k) == Ran("app_mention") /\ last.threw /\ last.failedAt = k + 1

----------------------------------------------------------------------------
(* Properties of the export rows and of the structured extraction *)

\* The price an item carries: the value under its price key, whatever it
\* is; the empty text when the item has none.
PriceOf(item) ==
    IF item.price # Undefined THEN item.price
    ELSE IF item.Price # Undefined THEN item.Price
    ELSE Str(<<>>)

\* C30: every export row carries the tax fields 'TX' and '0.05', the price
\* of its item copied as it is, whatever the item contains, and the item's
\* name with the decorative characters stripped.
C30_RowCarriesTaxAndPrice ==
    (Ran("generateExcelBuffer") /\ last.kind = "array") =>
        \A i \in 1..Len(last.result.rows) :
            LET row == last.result.rows[i]
                item == JsonValues[last.items[i]]
            IN /\ row.taxType = "TX"
               /\ row.taxRate = "0.05"
               /\ row.price = PriceOf(item)
               /\ row.name = removeEmojis(item.name)


\* The first fenced block tagged json of a response that is closed, and the
\* span from the first "[" to the last "]".
HasJsonBlock(text) ==
    \E i \in 1..Len(text) : \E j \in (i + 1)..Len(text) :
        text[i] = "FENCE_JSON" /\ text[j] \in Fences
JsonBlockContent(text) ==
    LET i == CHOOSE k \in 1..Len(text) :
                 /\ text[k] = "FENCE_JSON"
                 /\ \A m \in 1..(k - 1) : text[m] # "FENCE_JSON"
        j == CHOOSE k \in (i + 1)..Len(text) :
                 /\ text[k] \in Fences
                 /\ \A m \in (i + 1)..(k - 1) : text[m] \notin Fences
    IN trim(SubSeq(text, i + 1, j - 1))
HasBracketSpan(text) ==
    \E i \in 1..Len(text) : \E j \in (i + 1)..Len(text) : text[i] = "[" /\ text[j] = "]"
BracketSpan(text) ==
    LET i == CHOOSE k \in 1..Len(text) :
                 text[k] = "[" /\ \A m \in 1..(k - 1) : text[m] # "["
        j == CHOOSE k \in 1..Len(text) :
                 text[k] = "]" /\ \A m \in (k + 1)..Len(text) : text[m] # "]"
    IN SubSeq(text, i, j)

\* C29: the structured extraction prefers the fenced block: when the
\* response has a fenced block tagged json the text parsed is that block's
\* content, also when a "[" stands before the fence; the bracketed span is
\* parsed only when there is no such block.
C29_FencedBlockPreferred ==
    Ran("jsonMatch") =>
        IF HasJsonBlock(last.input)
        THEN last.result.found /\ last.result.jsonString = JsonBlockContent(last.input)
        ELSE IF HasBracketSpan(last.input)
        THEN last.result.found /\ last.result.jsonString = BracketSpan(last.input)
        ELSE ~last.result.found


----------------------------------------------------------------------------
(* Interleaved handling: two runs of boltApp.message for one thread *)

\* Each inbound message is handled by its own asynchronous run of the
\* listener; nothing serializes the runs of one thread.  Two of them are
\* enough to interleave.
HandlerRuns == {"first", "second"}

\* The number of messages the thread receives.
MaxMessages == 6

\* The texts tried in each status: a plain text, and the command phrases
\* and the date where they matter.
RaceTexts(status) ==
    CASE status = "pending_info" -> {RAW_HI, T_SUMMARY}
      [] status = "active" -> {RAW_HI, T_SUMMARY, T_REPORT}
      [] status = "pending_report_end_date" -> {RAW_DATE_OK, RAW_HI}
      [] OTHER -> {RAW_HI}

\* The one completion response the interleaved runs get.
RACE_RESPONSE == callGemini(RAW_PLAIN)

\* The branch of the if / else-if chain that a run takes on the status its
\* SELECT returned (not on the status the row has when the branch writes).
BranchOn(status, text) ==
    CASE status = "pending_info" -> "pending_info"
      [] status = "active" -> ActiveBranch(text)
      [] status = "pending_report_coach_name" -> "coach_name"
      [] status = "pending_report_end_date" -> "end_date"
      [] status = "pending_report_restaurant_name" -> "restaurant_name"
      [] status = "generating_report" -> "generating_report"
      [] OTHER -> "unexpected"

BranchScript(branch, text) ==
    CASE branch = "pending_info" -> PendingInfoScript(text, RACE_RESPONSE)
      [] branch = "summary" -> SummaryScript(RACE_RESPONSE, messages)
      [] branch = "excel" -> ExcelScript(RACE_RESPONSE)
      [] branch = "report_command" -> ReportCommandScript
      [] branch = "chat" -> ChatScript(text, RACE_RESPONSE)
      [] branch = "coach_name" -> CoachNameScript(text)
      [] branch = "end_date" -> EndDateScript(text)
      [] branch = "restaurant_name" -> RestaurantNameScript(text)
      [] branch = "generating_report" -> GeneratingReportScript
      [] OTHER -> Lookup

\* Whether the script has an UPDATE of conversations.status.
WritesStatus(script) ==
    \E k \in 1..Len(script) :
        script[k].op = "update" /\ "status" \in DOMAIN script[k].set

\* A run that is not under way.
IdleRun == [pc |-> "idle", text |-> <<>>, status |-> "none"]

\* The Conversation exists (processAndStoreFile has committed) and no run
\* is under way.  Here `report` is the sequence of the closing-report tasks
\* started so far, `cycles` counts the messages received, and `last` holds
\* the runs under way together with what the last step did: whether it
\* wrote the status, on which status the writer had acted and which status
\* it found in the row, the number of initial analyses committed, and
\* whether any run was started while another was under way.
RaceInit ==
    /\ menus = <<MENU_FILE>>
    /\ conversations = <<NewConversation(1)>>
    /\ messages = <<>>
    /\ report = <<>>
    /\ cycles = 0
    /\ last = [handler |-> "init",
               run |-> [h \in HandlerRuns |-> IdleRun],
               wrote |-> FALSE, acted |-> "none", found |-> "none",
               analyses |-> 0, overlapped |-> FALSE]

\* A message arrives: pool.connect() and the SELECT of the Conversation's
\* status.  What follows (the acknowledgement, the extraction, the
\* completion call) is awaited before the branch writes.
RaceSelect(h) ==
    /\ last.run[h].pc = "idle"
    /\ cycles < MaxMessages
    /\ \E raw \in RaceTexts(conversations[1].status) :
         last' = [last EXCEPT
                    !.handler = "select",
                    !.run[h] = [pc |-> "selected",
                                text |-> sanitizeStringForDB(raw),
                                status |-> conversations[1].status],
                    !.wrote = FALSE,
                    !.overlapped =
                        @ \/ \E g \in HandlerRuns \ {h} : last.run[g].pc # "idle"]
    /\ cycles' = cycles + 1
    /\ UNCHANGED <<menus, conversations, messages, report>>

\* The rest of the run: the writes of the branch (the transaction of the
\* initial analysis and of the chat commits as one; every UPDATE is
\* `WHERE id = $n`, whatever the status has become), the start of the task,
\* and the release of the connection.
RaceAct(h) ==
    /\ last.run[h].pc = "selected"
    /\ LET run == last.run[h]
           branch == BranchOn(run.status, run.text)
           script == BranchScript(branch, run.text)
           r == RunHandler(script, 0)
       IN /\ conversations' = r.conversations
          /\ messages' = r.messages
          /\ report' = IF r.spawned
                       THEN Append(report, [pc |-> "read", dbClient |-> "released",
                                            cycle |-> cycles, calls |-> 0])
                       ELSE report
          /\ last' = [last EXCEPT
                        !.handler = branch,
                        !.run[h] = IdleRun,
                        !.wrote = WritesStatus(script),
                        !.acted = run.status,
                        !.found = conversations[1].status,
                        !.analyses = IF branch = "pending_info" THEN @ + 1 ELSE @]
    /\ UNCHANGED <<menus, cycles>>

\* The end of a task: the UPDATE in its finally block, `SET status =
\* 'active' WHERE id = $2`; when the query is rejected the status stays.
RaceReportFinally(t) ==
    /\ report[t].pc # "done"
    /\ \E rejected \in BOOLEAN :
         /\ conversations' = IF rejected THEN conversations
                             ELSE UpdateRow(conversations, [status |-> "active"])
         /\ last' = [last EXCEPT
                       !.handler = "report_finally",
                       !.wrote = ~rejected,
                       !.acted = "generating_report",
                       !.found = conversations[1].status]
    /\ report' = [report EXCEPT ![t].pc = "done", ![t].dbClient = "none"]
    /\ UNCHANGED <<menus, messages, cycles>>

RaceNext ==
    \/ \E h \in HandlerRuns : RaceSelect(h)
    \/ \E h \in HandlerRuns : RaceAct(h)
    \/ \E t \in DOMAIN report : RaceReportFinally(t)

RaceSpec == RaceInit /\ [][RaceNext]_vars

\* The tasks that have not reached the end of their finally block.
RunningTasks == {t \in DOMAIN report : report[t].pc # "done"}

\* No run of the handler was started while another was under way.
HandledOneAfterAnother == ~last.overlapped

\* C31 (as claimed): at most one closing-report task of the Conversation is
\* running at any time, also when two messages are handled concurrently in
\* 'pending_report_restaurant_name'.
C31_AtMostOneTaskRunning == Cardinality(RunningTasks) <= 1

\* C31 (amended): when the messages of the thread are handled one after
\* another, at most one closing-report task of the Conversation is running
\* at any time.
C31_AtMostOneTaskWhenSerial ==
    HandledOneAfterAnother => Cardinality(RunningTasks) <= 1

\* A task is running, started by a run that did not overlap another, and
\* a later message has been handled while it runs.
C31_Witness ==
    /\ HandledOneAfterAnother
    /\ Cardinality(RunningTasks) = 1
    /\ last.handler = "generating_report"


----------------------------------------------------------------------------
(* The connection of the closing-report task *)

\* C32: while the closing-report task is running (up to and including the
\* UPDATE in its finally block) the connection it was given is still checked
\* out by the handler that started it: it has not been released to the pool,
\* where another handler could obtain it or the pool could close it.
C32_TaskConnectionStaysCheckedOut ==
    report.pc \in {"read", "generate", "finally"} => report.dbClient = "checked_out"


----------------------------------------------------------------------------
(* Writes of the status under interleaving *)

\* C33 (as claimed): whenever a handler or the closing-report task writes
\* the status, the row still holds the status that this handler had read or
\* that this task was started in; no write lands on a status that another
\* message has advanced meanwhile.
C33_NoStaleStateWrite == last.wrote => last.acted = last.found

\* C33 (amended): when the messages of the thread are handled one after
\* another, every write of the status by a handler or by the closing-report
\* task finds the row in the status the writer acted on.
C33_NoStaleStateWriteWhenSerial ==
    HandledOneAfterAnother => (last.wrote => last.acted = last.found)

\* The task's finally block has set the status back from 'generating_report'
\* after messages that were handled one after another.
C33_Witness ==
    /\ HandledOneAfterAnother
    /\ last.handler = "report_finally"
    /\ last.wrote
    /\ last.found = "generating_report"
    /\ conversations[1].status = "active"


----------------------------------------------------------------------------
(* The initial analysis under interleaving *)

\* C34 (as claimed): the initial analysis is committed at most once, and once
\* it is, the history holds one background-information Turn and one initial
\* assistant Turn from 'pending_info', whatever the interleaving of the
\* messages.
C34_InitialAnalysisAtMostOnce ==
    /\ last.analyses <= 1
    /\ last.analyses = 1 =>
         /\ Len(messages) >= 2
         /\ messages[1].sender = "user"
         /\ messages[2].sender = "ai"

\* C34 (amended): when the messages of the thread are handled one after
\* another, the initial analysis is committed at most once; its two Turns
\* are the first two of the history, and every later Turn comes from a chat
\* exchange in 'active'.
C34_InitialAnalysisAtMostOnceWhenSerial ==
    HandledOneAfterAnother =>
        /\ last.analyses <= 1
        /\ last.analyses = 1 =>
             /\ Len(messages) >= 2
             /\ messages[1].sender = "user"
             /\ messages[2].sender = "ai"
        /\ last.analyses = 0 => messages = <<>>
        /\ last.analyses = 1 <=> conversations[1].status # "pending_info"

\* The analysis has been committed and a later message was handled in
\* 'active', one after another.
C34_Witness ==
    /\ HandledOneAfterAnother
    /\ last.analyses = 1
    /\ last.handler = "chat"
    /\ Len(messages) = 4


----------------------------------------------------------------------------
(* The shape of the stored history *)

\* C35: with the messages of the thread handled one after another, the
\* stored history (in the order of insertion) has even length and alternates
\* human Turn, assistant Turn; it is empty as long as the Conversation is in
\* 'pending_info', and its first Turn is the background text given there.
C35_HistoryAlternates ==
    /\ Len(messages) % 2 = 0
    /\ \A i \in 1..Len(messages) :
         messages[i].sender = IF i % 2 = 1 THEN "user" ELSE "ai"
    /\ StatusIs("pending_info") => messages = <<>>
    /\ messages # <<>> =>
         messages[1].content \in {sanitizeStringForDB(raw) : raw \in BackgroundTexts}
    /\ Ran("pending_info") /\ messages # <<>> => messages[1].content = last.text

\* A chat exchange has been stored after the initial analysis.
C35_Witness ==
    /\ Ran("chat")
    /\ ~last.threw
    /\ Len(messages) = 4
    /\ Len(last.messagesBefore) = 2


----------------------------------------------------------------------------
(* Where a Turn with the summary command can stand *)

\* C36 (as claimed): in every reachable history a human Turn that contains
\* '統整建議' is the first Turn.
C36_CommandTurnOnlyFirst ==
    \A i \in 1..Len(messages) : IsCommandTurn(messages[i]) => i = 1

\* C36 (amended): when the messages of the thread are handled one after
\* another, a human Turn that contains '統整建議' is the first Turn of the
\* history (the background text), so the command Turn the recovery finds, if
\* any, is the first Turn and the Turn after it is the initial analysis.
C36_CommandTurnOnlyFirstWhenSerial ==
    HandledOneAfterAnother =>
        /\ \A i \in 1..Len(messages) : IsCommandTurn(messages[i]) => i = 1
        /\ lastTongZhengIndex(messages) \in {0, 1}
        /\ lastTongZhengIndex(messages) = 1 => messages[2].sender = "ai"

\* The background text held the phrase, and the command has then been sent
\* in 'active' and answered.
C36_Witness ==
    /\ HandledOneAfterAnother
    /\ last.handler = "summary"
    /\ Len(messages) >= 2
    /\ IsCommandTurn(messages[1])


----------------------------------------------------------------------------
(* Command phrases outside 'active' *)

\* The text holds one of the three command phrases.
IsCommand(text) ==
    IsSummaryCommand(text) \/ IsExcelCommand(text) \/ IsReportCommand(text)

\* The branches that carry out a command.
CommandHandlers == {"summary", "excel", "report_command"}

\* The states in which the text is an answer.
AnswerStatuses ==
    {"pending_info", "pending_report_coach_name", "pending_report_end_date",
     "pending_report_restaurant_name"}

\* C37: a command branch runs only on a Conversation in 'active'.  In
\* 'pending_info', 'pending_report_coach_name', 'pending_report_end_date' and
\* 'pending_report_restaurant_name' a text with a command phrase is handled
\* by the branch of that status: stored as the background text (with its
\* analysis), as the coach's name or as the restaurant's name, or rejected
\* as a date; no file is uploaded, no Turn is stored outside 'pending_info',
\* and no completion call is made outside the initial analysis.
C37_CommandsOnlyInActive ==
    /\ last.handler \in CommandHandlers => last.status = "active"
    /\ (/\ last.handler \in MessageHandlers
        /\ last.status \in AnswerStatuses
        /\ IsCommand(last.text)) =>
         /\ last.uploads = <<>>
         /\ last.status = "pending_info" =>
              /\ Ran("pending_info")
              /\ ~last.threw =>
                   /\ messages = last.messagesBefore \o
                        <<[sender |-> "user", content |-> last.text,
                           created_at |-> Len(last.messagesBefore)],
                          [sender |-> "ai", content |-> last.response,
                           created_at |-> Len(last.messagesBefore)]>>
                   /\ conv.status = "active"
         /\ last.status = "pending_report_coach_name" =>
              /\ Ran("coach_name")
              /\ last.calls = 0
              /\ messages = last.messagesBefore
              /\ ~last.threw =>
                   /\ conv.report_coach_name = last.text
                   /\ conv.status = "pending_report_end_date"
         /\ last.status = "pending_report_end_date" =>
              /\ Ran("end_date")
              /\ last.calls = 0
              /\ TablesUnchanged
              /\ ~last.threw => Posted("date_format_error")
         /\ last.status = "pending_report_restaurant_name" =>
              /\ Ran("restaurant_name")
              /\ last.calls = 0
              /\ messages = last.messagesBefore
              /\ ~last.threw =>
                   /\ conv.report_restaurant_name = last.text
                   /\ conv.status = "generating_report"
                   /\ last.spawned

\* The report command was sent as the answer to the question for the
\* restaurant's name and was stored as the name.
C37_Witness ==
    /\ Ran("restaurant_name")
    /\ ~last.threw
    /\ IsReportCommand(last.text)
    /\ conv.report_restaurant_name = last.text
    /\ IsReportCommand(conv.report_coach_name)


----------------------------------------------------------------------------
(* A message in a thread without a Conversation *)

\* C38: a threaded message for a channel and thread that have no row in
\* conversations (a reply handled before processAndStoreFile has committed
\* included) leaves the tables as they are, makes no completion call, starts
\* no task, uploads nothing, and posts nothing once the lookup has returned;
\* only when the lookup itself throws does the catch block post the error.
C38_NoConversationNoEffect ==
    Ran("no_conversation") =>
        /\ TablesUnchanged
        /\ conversations = <<>>
        /\ last.calls = 0
        /\ last.uploads = <<>>
        /\ ~last.spawned
        /\ report = IdleReport
        /\ ~last.threw => last.posts = <<>>
        /\ last.threw /\ last.posts # <<>> =>
             /\ last.failedAt = 2
             /\ last.posts = <<[tag |-> "error", body |-> <<>>]>>

\* The lookup returned no row and the handler ended without a reply.
C38_Witness ==
    /\ Ran("no_conversation")
    /\ ~last.threw
    /\ last.acquired = 1
    /\ menus = <<>>

----------------------------------------------------------------------------
(* The pooled connection of a threaded-message handler *)

\* The branches of the threaded-message handler.
ThreadedMessageHandlers == MessageHandlers \cup {"no_conversation"}

\* C39: every run of a threaded-message handler releases the connection it
\* acquired exactly once, however the run ends: at the end of its branch, at
\* the return after a command or a validation error, or after an exception;
\* a run whose pool.connect() throws has acquired none and releases none.
C39_ConnectionReleasedExactlyOnce ==
    last.handler \in ThreadedMessageHandlers =>
        /\ last.acquired = (IF last.threw /\ last.failedAt = 1 THEN 0 ELSE 1)
        /\ last.released = last.acquired

\* A branch threw after the connection was acquired, and the connection was
\* released.
C39_Witness ==
    /\ last.handler \in ThreadedMessageHandlers
    /\ last.threw
    /\ last.failedAt > 1
    /\ last.acquired = 1
    /\ last.released = 1

====
